---------------------------- MODULE Spec2Model ----------------------------
(***************************************************************************)
(* A model of the TikTok scraping toolkit:                                 *)
(*   - the cookie Locator   (src/Scraper/extract_ms_token.py),             *)
(*   - the scrape Dispatcher (src/Scraper/tiktok_scraper.py),              *)
(*   - the Mock generator    (src/Scraper/tiktok_scraper_mock.py).         *)
(*                                                                         *)
(* Text is a sequence of one-character strings, so that trimming, prefix   *)
(* tests, SQL LIKE patterns and slicing are computed and not assumed.      *)
(* A Python call that can raise yields a record that carries the class of  *)
(* the exception; the try/except structure of the code decides what        *)
(* becomes of it.                                                          *)
(***************************************************************************)
EXTENDS Integers, Sequences, FiniteSets, TLC

(***************************************************************************)
(* Bounds of the model.                                                    *)
(***************************************************************************)
\* rows of a cookie table in the per-file extraction check
MaxRows == 2
\* cookie files over the three browser families in one Locator run
MaxCands == 2
\* cookie files of one family in the ranking check
MaxProfiles == 3

(***************************************************************************)
(* Text.                                                                   *)
(***************************************************************************)
Min(a, b) == IF a < b THEN a ELSE b

Max(a, b) == IF a > b THEN a ELSE b

Range(s) == {s[i] : i \in 1..Len(s)}

StartsWith(s, pre) ==
    /\ Len(s) >= Len(pre)
    /\ SubSeq(s, 1, Len(pre)) = pre

EndsWith(s, suf) ==
    /\ Len(s) >= Len(suf)
    /\ SubSeq(s, Len(s) - Len(suf) + 1, Len(s)) = suf

Contains(s, sub) ==
    \E i \in 1..(Len(s) - Len(sub) + 1) : SubSeq(s, i, i + Len(sub) - 1) = sub

\* the blank, the carriage return and the line feed stand for the characters
\* str.strip() removes
Whitespace == {" ", "\\r", "\\n"}

RECURSIVE LStrip(_)
LStrip(s) ==
    IF s # <<>> /\ Head(s) \in Whitespace THEN LStrip(Tail(s)) ELSE s

RECURSIVE RStrip(_)
RStrip(s) ==
    IF s # <<>> /\ s[Len(s)] \in Whitespace
    THEN RStrip(SubSeq(s, 1, Len(s) - 1))
    ELSE s

\* a fault: lstrip() in place of strip()
Strip_LeftOnly(s) == LStrip(s)

\* str.strip() / bytes.strip()
Strip(s) == RStrip(LStrip(s))

\* the strings the code compares with
TIKTOK == <<"t", "i", "k", "t", "o", "k">>

DOTCOM == <<".", "c", "o", "m">>

TIKTOK_COM == TIKTOK \o DOTCOM

DOT_TIKTOK_COM == <<".">> \o TIKTOK_COM

WWW_TIKTOK_COM == <<"w", "w", "w">> \o DOT_TIKTOK_COM

V1 == <<"v", "1">>

(***************************************************************************)
(* Cookie values: what sqlite3 hands back for the value column.  A byte    *)
(* that is not valid UTF-8 is the character "\\xff".                       *)
(***************************************************************************)
BadByte == "xff"

Text(cs) == [type |-> "str", chars |-> cs]

Bytes(cs) == [type |-> "bytes", chars |-> cs]

None == [type |-> "none", chars |-> <<>>]

\* Python truthiness of a value, a token or None
Truthy(v) == v.type # "none" /\ v.chars # <<>>

(***************************************************************************)
(* Cookie files.  st is what the path holds:                               *)
(*   "missing"     nothing (a dangling symlink matched by glob, or a file  *)
(*                 removed since): exists() is false, sqlite3 opens it as  *)
(*                 an empty database                                       *)
(*   "empty"       a zero-length file: a database with no table            *)
(*   "notdb"       a file that is no SQLite database                       *)
(*   "unopenable"  a directory or a file the process may not open          *)
(*   "db"          a database with one cookie table of the given schema    *)
(* schema: "moz_base" (moz_cookies with baseDomain and host), "moz_host"   *)
(* (moz_cookies with host only), "chrome" (cookies with host_key).         *)
(***************************************************************************)
Row(n, h, v) == [name |-> n, host |-> h, value |-> v]

File(s, sch, rs) == [st |-> s, schema |-> sch, rows |-> rs]

NoFile(s) == File(s, "none", <<>>)

Exists(f) == f.st # "missing"

TableOf(schema) ==
    CASE schema \in {"moz_base", "moz_host"} -> "moz_cookies"
      [] schema = "chrome" -> "cookies"
      [] OTHER -> "none"

ColumnsOf(schema) ==
    CASE schema = "moz_base" -> {"name", "value", "host", "baseDomain"}
      [] schema = "moz_host" -> {"name", "value", "host"}
      [] schema = "chrome" -> {"name", "value", "host_key"}
      [] OTHER -> {}

\* the registrable domain Firefox stored in baseDomain: the last two labels
RECURSIVE BaseDomain(_)
BaseDomain(h) ==
    IF Cardinality({i \in 1..Len(h) : h[i] = "."}) <= 1
    THEN h
    ELSE BaseDomain(Tail(h))

(***************************************************************************)
(* The WHERE clauses on the domain, by the text of the query.              *)
(***************************************************************************)
DomCol(dom) ==
    CASE dom = "baseDomain_eq" -> "baseDomain"
      [] dom \in {"host_eq_or_sub", "host_like_tiktok", "host_like_tiktok_com"} -> "host"
      [] OTHER -> "host_key"

DomMatch(dom, h) ==
    CASE dom = "baseDomain_eq" ->
            BaseDomain(h) \in {TIKTOK_COM, DOT_TIKTOK_COM}
      [] dom = "host_eq_or_sub" ->
            \/ h \in {TIKTOK_COM, DOT_TIKTOK_COM, WWW_TIKTOK_COM}
            \/ EndsWith(h, DOT_TIKTOK_COM)
      [] dom \in {"host_like_tiktok", "key_like_tiktok"} -> Contains(h, TIKTOK)
      [] dom \in {"host_like_tiktok_com", "key_like_tiktok_com"} -> EndsWith(h, TIKTOK_COM)
      [] dom = "key_like_dot_tiktok_com" -> EndsWith(h, DOT_TIKTOK_COM)
      [] dom = "key_eq_www" -> h = WWW_TIKTOK_COM
      [] OTHER -> FALSE

\* a query: the table, the cookie names asked for ({} = any name), the domain clause
Query(t, ns, d) == [table |-> t, names |-> ns, dom |-> d]

TokenNames == {"msToken", "ms_token"}

RECURSIVE SelectRows(_, _)
SelectRows(rows, q) ==
    IF rows = <<>> THEN <<>>
    ELSE LET r == Head(rows)
             hit == /\ (q.names = {} \/ r.name \in q.names)
                    /\ DomMatch(q.dom, r.host)
         IN  (IF hit THEN <<r>> ELSE <<>>) \o SelectRows(Tail(rows), q)

\* sqlite3.connect(f"file:{cookiefile}?immutable=1", uri=True)
Connect(f) == IF f.st = "unopenable" THEN "OperationalError" ELSE "none"

\* conn.execute(query): the exception raised ("none" if none) and the rows selected
Execute(f, q) ==
    CASE f.st = "notdb" -> [exc |-> "DatabaseError", rows |-> <<>>]
      [] f.st \in {"missing", "empty"} -> [exc |-> "OperationalError", rows |-> <<>>]
      [] f.st = "db" /\ (TableOf(f.schema) # q.table \/ DomCol(q.dom) \notin ColumnsOf(f.schema)) ->
            [exc |-> "OperationalError", rows |-> <<>>]
      [] OTHER -> [exc |-> "none", rows |-> SelectRows(f.rows, q)]

\* the classes an except clause catches
Caught(clause, exc) ==
    CASE clause = "OperationalError" -> exc = "OperationalError"
      [] clause = "Exception" ->
            exc \in {"OperationalError", "DatabaseError", "AttributeError", "UnicodeDecodeError"}
      [] OTHER -> FALSE

(***************************************************************************)
(* has_tiktok_cookies: the probe.                                          *)
(***************************************************************************)
\* a run of COUNT(*) queries inside one try block: "True" at the first count
\* above zero, "False" when none is, or the class of the first exception
RECURSIVE CountChain(_, _)
CountChain(f, qs) ==
    IF qs = <<>> THEN "False"
    ELSE LET r == Execute(f, Head(qs))
         IN  IF r.exc # "none" THEN r.exc
             ELSE IF Len(r.rows) > 0 THEN "True"
             ELSE CountChain(f, Tail(qs))

FirefoxProbeQueries ==
    << Query("moz_cookies", TokenNames, "baseDomain_eq"),
       Query("moz_cookies", {}, "baseDomain_eq") >>

FirefoxProbeFallback ==
    << Query("moz_cookies", TokenNames, "host_like_tiktok_com"),
       Query("moz_cookies", {}, "host_like_tiktok_com") >>

ChromeProbeQueries ==
    << Query("cookies", TokenNames, "key_like_tiktok_com"),
       Query("cookies", {}, "key_like_tiktok_com") >>

\* the outer handler of the probe: except Exception: pass
ProbeHandler(exc) == Caught("Exception", exc)

\* found: the value returned; raised: the exception that leaves the call;
\* closed: whether conn.close() ran
has_tiktok_cookies(f, is_firefox) ==
    LET c == Connect(f)
        first == CountChain(f, IF is_firefox THEN FirefoxProbeQueries ELSE ChromeProbeQueries)
        out == IF c # "none" THEN c
               ELSE IF is_firefox /\ Caught("OperationalError", first)
                    THEN CountChain(f, FirefoxProbeFallback)
                    ELSE first
    IN  CASE out = "True" -> [found |-> TRUE, raised |-> "none", closed |-> FALSE]
          [] out = "False" -> [found |-> FALSE, raised |-> "none", closed |-> TRUE]
          [] ProbeHandler(out) -> [found |-> FALSE, raised |-> "none", closed |-> FALSE]
          [] OTHER -> [found |-> FALSE, raised |-> out, closed |-> FALSE]

(***************************************************************************)
(* The browser profiles on disk and their enumeration.  A candidate is a   *)
(* path and the file behind it.                                            *)
(***************************************************************************)
Families == {"firefox", "chrome", "edge"}

Cand(fam, k, f) == [path |-> [fam |-> fam, id |-> k], file |-> f]

\* Firefox: glob over the two profile patterns; prof is the match order
EnumerateFirefox(prof) == [i \in 1..Len(prof) |-> Cand("firefox", i, prof[i])]

RECURSIVE NumberedOnly(_)
NumberedOnly(cs) ==
    IF cs = <<>> THEN <<>>
    ELSE (IF Head(cs).numbered THEN <<Head(cs).cand>> ELSE <<>>) \o NumberedOnly(Tail(cs))

\* Chrome and Edge: Default/Cookies if it exists, then "Profile */Cookies",
\* then "Profile [0-9]*/Cookies"; d is [base, default, profiles]
EnumerateChromeEdge(fam, d) ==
    IF ~d.base THEN <<>>
    ELSE LET ps == [i \in 1..Len(d.profiles) |->
                       [numbered |-> d.profiles[i].numbered,
                        cand |-> Cand(fam, i, d.profiles[i].file)]]
         IN  (IF Exists(d.default) THEN <<Cand(fam, 0, d.default)>> ELSE <<>>)
             \o [i \in 1..Len(ps) |-> ps[i].cand]
             \o NumberedOnly(ps)

\* the loop of get_firefox_cookie_files over all_cookiefiles
RECURSIVE FirefoxRankLoop(_, _, _)
FirefoxRankLoop(cookiefiles, prioritized, others) ==
    IF cookiefiles = <<>> THEN prioritized \o others
    ELSE LET cookiefile == Head(cookiefiles)
         IN  IF has_tiktok_cookies(cookiefile.file, TRUE).found
             THEN FirefoxRankLoop(Tail(cookiefiles), Append(prioritized, cookiefile), others)
             ELSE FirefoxRankLoop(Tail(cookiefiles), prioritized, Append(others, cookiefile))

\* the loop of get_chrome_cookie_files / get_edge_cookie_files over cookie_files
RECURSIVE ChromeEdgeRankLoop(_, _, _)
ChromeEdgeRankLoop(cookiefiles, prioritized, others) ==
    IF cookiefiles = <<>> THEN prioritized \o others
    ELSE LET cookiefile == Head(cookiefiles)
         IN  IF Exists(cookiefile.file) /\ has_tiktok_cookies(cookiefile.file, FALSE).found
             THEN ChromeEdgeRankLoop(Tail(cookiefiles), Append(prioritized, cookiefile), others)
             ELSE IF Exists(cookiefile.file)
             THEN ChromeEdgeRankLoop(Tail(cookiefiles), prioritized, Append(others, cookiefile))
             ELSE ChromeEdgeRankLoop(Tail(cookiefiles), prioritized, others)

\* a fault: the two lists joined the other way round
RankFirefox_OthersFirst(cands) ==
    SelectSeq(cands, LAMBDA c : ~has_tiktok_cookies(c.file, TRUE).found)
        \o SelectSeq(cands, LAMBDA c : has_tiktok_cookies(c.file, TRUE).found)

\* the tail of get_firefox_cookie_files: prioritized + others
RankFirefox(cands) == FirefoxRankLoop(cands, <<>>, <<>>)

\* the tail of get_chrome_cookie_files / get_edge_cookie_files
RankChromeEdge(cands) == ChromeEdgeRankLoop(cands, <<>>, <<>>)

\* an exception that leaves a probe leaves the enumeration too
RankRaised(cands, is_firefox) ==
    LET bad == {i \in 1..Len(cands) :
                   /\ is_firefox \/ Exists(cands[i].file)
                   /\ has_tiktok_cookies(cands[i].file, is_firefox).raised # "none"}
    IN  IF bad = {} THEN "none"
        ELSE has_tiktok_cookies(cands[CHOOSE i \in bad : \A j \in bad : i <= j].file,
                                is_firefox).raised

(***************************************************************************)
(* Per-file extraction.  The result of a call: tok, the value returned     *)
(* (None for no token); raised, the exception that leaves the call;        *)
(* warnings, the kinds of message printed.                                 *)
(***************************************************************************)
Result(t, e, w) == [tok |-> t, raised |-> e, warnings |-> w]

CookieNames == <<"msToken", "ms_token">>

FirefoxDomains == <<"baseDomain_eq", "host_eq_or_sub", "host_like_tiktok">>

ChromeDomains ==
    <<"key_like_tiktok_com", "key_like_dot_tiktok_com", "key_eq_www", "key_like_tiktok">>

\* the queries in the order the two nested loops run them
QueryList(table, doms) ==
    [k \in 1..(Len(CookieNames) * Len(doms)) |->
        Query(table, {CookieNames[((k - 1) \div Len(doms)) + 1]}, doms[((k - 1) % Len(doms)) + 1])]

\* the loops of extract_ms_token_from_firefox: exc is an exception the inner
\* try does not catch
RECURSIVE FirefoxScan(_, _)
FirefoxScan(f, qs) ==
    IF qs = <<>> THEN [tok |-> None, exc |-> "none"]
    ELSE LET r == Execute(f, Head(qs))
         IN  IF r.exc # "none"
             THEN IF Caught("OperationalError", r.exc)
                  THEN FirefoxScan(f, Tail(qs))
                  ELSE [tok |-> None, exc |-> r.exc]
             ELSE IF /\ r.rows # <<>>
                     /\ Truthy(r.rows[1].value)
                     /\ Len(Strip(r.rows[1].value.chars)) > 0
             THEN [tok |-> [type |-> r.rows[1].value.type,
                            chars |-> Strip(r.rows[1].value.chars)],
                   exc |-> "none"]
             ELSE FirefoxScan(f, Tail(qs))

\* the count of TikTok cookies taken for the hint, 0 when it cannot be taken
FirefoxTipCount(f) ==
    LET a == Execute(f, Query("moz_cookies", {}, "host_like_tiktok_com"))
        b == Execute(f, Query("moz_cookies", {}, "host_like_tiktok"))
    IN  IF Connect(f) # "none" THEN 0
        ELSE IF a.exc = "none" THEN Len(a.rows)
        ELSE IF Caught("OperationalError", a.exc) /\ b.exc = "none" THEN Len(b.rows)
        ELSE 0

\* a fault: the outer handler catches sqlite3.OperationalError only
FirefoxHandler_OperationalOnly(exc) == Caught("OperationalError", exc)

\* the outer handler of extract_ms_token_from_firefox: except Exception
FirefoxHandler(exc) == Caught("Exception", exc)

extract_ms_token_from_firefox(f) ==
    LET c == Connect(f)
        scan == FirefoxScan(f, QueryList("moz_cookies", FirefoxDomains))
        exc == IF c # "none" THEN c ELSE scan.exc
    IN  IF exc # "none"
        THEN IF FirefoxHandler(exc)
             THEN Result(None, "none", {"could_not_extract"})
             ELSE Result(None, exc, {})
        ELSE IF scan.tok # None
        THEN Result(scan.tok, "none", {})
        ELSE Result(None, "none",
                    IF FirefoxTipCount(f) > 0 THEN {"no_token_tip"} ELSE {})

\* bytes.decode('utf-8')
Decodable(cs) == \A i \in 1..Len(cs) : cs[i] # BadByte

\* the test both branches apply to a readable value
Usable(cs) == Strip(cs) # <<>> /\ ~StartsWith(cs, V1)

\* the loops of extract_ms_token_from_chrome_edge; every exception of a query
\* is caught inside the loop
RECURSIVE ChromeScan(_, _, _)
ChromeScan(f, qs, warned) ==
    IF qs = <<>> THEN [tok |-> None, warnings |-> warned]
    ELSE LET r == Execute(f, Head(qs))
             v == r.rows[1].value
         IN  IF r.exc # "none" \/ r.rows = <<>> \/ ~Truthy(r.rows[1].value)
             THEN ChromeScan(f, Tail(qs), warned)
             ELSE IF v.type = "bytes"
             THEN IF Decodable(v.chars) /\ Usable(v.chars)
                  THEN [tok |-> Text(Strip(v.chars)), warnings |-> warned]
                  ELSE ChromeScan(f, Tail(qs), warned \cup {"encrypted"})
             ELSE IF v.type = "str" /\ Usable(v.chars)
             THEN [tok |-> Text(Strip(v.chars)), warnings |-> warned]
             ELSE ChromeScan(f, Tail(qs), warned)

\* the outer handlers of extract_ms_token_from_chrome_edge
ChromeHandler(exc) == Caught("OperationalError", exc) \/ Caught("Exception", exc)

extract_ms_token_from_chrome_edge(f) ==
    LET c == Connect(f)
        scan == ChromeScan(f, QueryList("cookies", ChromeDomains), {})
    IN  IF c # "none"
        THEN IF ChromeHandler(c)
             THEN Result(None, "none", {"could_not_read"})
             ELSE Result(None, c, {})
        ELSE Result(scan.tok, "none", scan.warnings)

\* the extraction extract_ms_token applies to a candidate of a family
ExtractFrom(fam, f) ==
    IF fam = "firefox"
    THEN extract_ms_token_from_firefox(f)
    ELSE extract_ms_token_from_chrome_edge(f)

(***************************************************************************)
(* extract_ms_token: the families to try.                                  *)
(***************************************************************************)
\* str.lower() on the preferences the model feeds
Lower(s) ==
    CASE s = "Chrome" -> "chrome"
      [] OTHER -> s

\* a fault: the default order starts with Chrome
BrowsersToTry_ChromeFirst(preferred_browser) ==
    IF preferred_browser # "none"
    THEN CASE Lower(preferred_browser) = "firefox" -> <<"firefox">>
           [] Lower(preferred_browser) = "chrome" -> <<"chrome">>
           [] Lower(preferred_browser) = "edge" -> <<"edge">>
           [] OTHER -> <<>>
    ELSE <<"chrome", "firefox", "edge">>

\* preferred_browser "none" is the Python None
BrowsersToTry(preferred_browser) ==
    IF preferred_browser # "none"
    THEN CASE Lower(preferred_browser) = "firefox" -> <<"firefox">>
           [] Lower(preferred_browser) = "chrome" -> <<"chrome">>
           [] Lower(preferred_browser) = "edge" -> <<"edge">>
           [] OTHER -> <<>>
    ELSE <<"firefox", "chrome", "edge">>

(***************************************************************************)
(* The inputs the model draws.                                             *)
(***************************************************************************)
NOT_TIKTOK_COM == <<"n", "o", "t">> \o TIKTOK_COM

TIKTOKV_COM == TIKTOK \o <<"v">> \o DOTCOM

Hosts == {DOT_TIKTOK_COM, NOT_TIKTOK_COM, TIKTOKV_COM}

Values ==
    { Text(<<>>), Text(<<" ">>), Text(<<" ", "a", " ">>),
      Text(<<"v", "1", "a">>), Text(<<"a", "\\r", "b">>),
      Bytes(<<"c", " ">>), Bytes(<<"v", "1", BadByte>>) }

\* rows named msToken with every value, rows named ms_token with or without a
\* token, rows of another cookie
Rows ==
    {Row("msToken", h, v) : h \in Hosts, v \in Values}
        \cup {Row("ms_token", h, v) : h \in Hosts, v \in {Text(<<>>), Text(<<"b">>)}}
        \cup {Row("sessionid", h, Text(<<"b">>)) : h \in Hosts}

Schemas == {"moz_base", "moz_host", "chrome"}

SeqsUpTo(S, n) == UNION {[1..k -> S] : k \in 0..n}

\* every cookie file of the per-file extraction check: no database, every
\* database of up to MaxRows rows, and the databases that hold a token under
\* both names behind a msToken row without value
AllFiles ==
    {NoFile(st) : st \in {"missing", "empty", "notdb", "unopenable"}}
        \cup {File("db", sch, rs) : sch \in Schemas, rs \in SeqsUpTo(Rows, MaxRows)}
        \cup {File("db", sch, << Row("msToken", DOT_TIKTOK_COM, Text(<<>>)),
                                 Row("msToken", DOT_TIKTOK_COM, Text(<<" ", "a", " ">>)),
                                 Row("ms_token", DOT_TIKTOK_COM, Text(<<"b">>)) >>) :
                 sch \in Schemas}

\* the cookie files a ranking meets: absent, unreadable, with the token
RankFiles ==
    { NoFile("missing"), NoFile("notdb"), NoFile("unopenable"),
      File("db", "moz_host", <<Row("msToken", DOT_TIKTOK_COM, Text(<<" ", "a", " ">>))>>),
      File("db", "chrome", <<Row("msToken", DOT_TIKTOK_COM, Text(<<"b">>))>>) }

\* the cookie files a Locator run meets: those, and an encrypted token
SampleFiles ==
    RankFiles \cup
        {File("db", "chrome", <<Row("msToken", DOT_TIKTOK_COM, Bytes(<<"v", "1", BadByte>>))>>)}

\* the Chrome or Edge directories that hold exactly n cookie files out of
\* files; flags says which profile directories may be named "Profile <digit>..."
ProfileDirs(n, flags, files) ==
    (IF n = 0 THEN {[base |-> FALSE, default |-> NoFile("missing"), profiles |-> <<>>]} ELSE {})
        \cup {[base |-> TRUE, default |-> NoFile("missing"), profiles |-> ps] :
                ps \in [1..n -> [numbered : flags, file : files]]}
        \cup (IF n = 0 THEN {}
              ELSE {[base |-> TRUE, default |-> f, profiles |-> ps] :
                      f \in files \ {NoFile("missing")},
                      ps \in [1..(n - 1) -> [numbered : flags, file : files]]})

\* the ways to spread at most n cookie files over the three families
Spreads(n) == {t \in (0..n) \X (0..n) \X (0..n) : t[1] + t[2] + t[3] <= n}

\* in a Locator run every profile directory is named as Chrome and Edge name them
FileSystems ==
    UNION {{[firefox |-> a, chrome |-> c, edge |-> e] :
               a \in [1..t[1] -> SampleFiles],
               c \in ProfileDirs(t[2], {TRUE}, SampleFiles),
               e \in ProfileDirs(t[3], {TRUE}, SampleFiles)} :
           t \in Spreads(MaxCands)}

Preferences == {"none", "firefox", "chrome", "Chrome", "edge", "safari"}

(***************************************************************************)
(* The Dispatcher and the Mock generator: values.  An optional argument is *)
(* <<>> for the Python None and <<v>> for the value v.  '' and {} are both *)
(* the empty sequence, so that d.get(k, '') and d.get(k, {}) are one Get.  *)
(***************************************************************************)
\* [:100] of the description and comment-text cells
TRUNCATE == 100
\* --comment-limit default
COMMENT_LIMIT_DEFAULT == 30
\* count asked of user.videos when no limit is given
USER_COUNT_DEFAULT == 1000
\* count asked of trending.videos and tag.videos when no limit is given
FEED_COUNT_DEFAULT == 100
\* videos of a mock trending or hashtag run without limit
MOCK_FEED_DEFAULT == 30
\* videos of a mock user run without limit: min(videoCount, 50)
MOCK_USER_VIDEOS == 50
\* followers of a mock user run without follower limit: min(followerCount, 100)
MOCK_USER_FOLLOWERS == 100

Absent == <<>>

\* bool(x) of an optional int: None and 0 are false
IntTruthy(o) == o # Absent /\ o[1] # 0

\* bool(x) of an optional str: None and '' are false
StrTruthy(o) == o # Absent /\ o[1] # <<>>

\* d.get(k, '') and d.get(k, {})
Get(d, k) == IF k \in DOMAIN d THEN d[k] ELSE <<>>

\* s[:n]
Slice(s, n) == SubSeq(s, 1, Min(n, Len(s)))

\* a text of n characters
Fill(n) == [i \in 1..n |-> "a"]

\* str(n) of a natural number
RECURSIVE Str(_)
Str(n) ==
    LET digit == <<<<"0">>, <<"1">>, <<"2">>, <<"3">>, <<"4">>, <<"5">>, <<"6">>,
                   <<"7">>, <<"8">>, <<"9">>>>[(n % 10) + 1]
    IN  IF n < 10 THEN digit ELSE Str(n \div 10) \o digit

\* str.capitalize() on the characters the model feeds
Capitalize(s) ==
    IF s = <<>> THEN s
    ELSE <<CASE s[1] = "a" -> "A"
             [] s[1] = "u" -> "U"
             [] s[1] = "v" -> "V"
             [] OTHER -> s[1]>> \o SubSeq(s, 2, Len(s))

\* s.split('/')[-1]
LastSegment(s) ==
    LET slashes == {i \in 1..Len(s) : s[i] = "/"}
    IN  IF slashes = {} THEN s
        ELSE SubSeq(s, (CHOOSE i \in slashes : \A j \in slashes : j <= i) + 1, Len(s))

\* random.randint(a, b) and random.choice([a, ..., b]): the run's random
\* source draws the least value every time, or the greatest every time
Random(r, a, b) == IF r = "lo" THEN a ELSE b

\* str(random.randint(x000000000000000000, y999999999999999999))
RandomId(r, x, y) ==
    IF r = "lo" THEN <<x>> \o [i \in 1..18 |-> "0"] ELSE <<y>> \o [i \in 1..18 |-> "9"]

(***************************************************************************)
(* Rows of a CSV file.  kind tells which writerow call of the code wrote   *)
(* the row: "header" (a literal column list), "field" (a Type, Field,      *)
(* Value row), "blank" (writerow([])), or the kind of item of a data row.  *)
(***************************************************************************)
CsvRow(kind, cells) == [kind |-> kind, cells |-> cells]

FIELD_COLUMNS == <<"Type", "Field", "Value">>

USER_VIDEO_COLUMNS ==
    <<"Video ID", "Description", "Likes", "Shares", "Comments", "Views", "Created">>

FEED_VIDEO_COLUMNS ==
    <<"Video ID", "Author", "Description", "Likes", "Shares", "Comments", "Views",
      "Created">>

COMMENT_COLUMNS == <<"Comment ID", "Author", "Text", "Likes", "Created">>

FOLLOWER_COLUMNS ==
    <<"Follower ID", "Username", "Nickname", "Followers", "Following", "Videos",
      "Verified">>

UserVideoRow(video) ==
    CsvRow("user_video",
           <<Get(video, "id"), Slice(Get(video, "desc"), TRUNCATE),
             Get(Get(video, "stats"), "diggCount"), Get(Get(video, "stats"), "shareCount"),
             Get(Get(video, "stats"), "commentCount"),
             Get(Get(video, "stats"), "playCount"), Get(video, "createTime")>>)

FeedVideoRow(video) ==
    CsvRow("feed_video",
           <<Get(video, "id"), Get(Get(video, "author"), "uniqueId"),
             Slice(Get(video, "desc"), TRUNCATE),
             Get(Get(video, "stats"), "diggCount"), Get(Get(video, "stats"), "shareCount"),
             Get(Get(video, "stats"), "commentCount"),
             Get(Get(video, "stats"), "playCount"), Get(video, "createTime")>>)

CommentRow(comment) ==
    CsvRow("comment",
           <<Get(comment, "id"), Get(Get(comment, "user"), "uniqueId"),
             Slice(Get(comment, "text"), TRUNCATE), Get(comment, "diggCount"),
             Get(comment, "createTime")>>)

\* follower.get('verified', False): every follower the Mock generates has the key
FollowerRow(follower) ==
    CsvRow("follower",
           <<Get(follower, "id"), Get(follower, "uniqueId"), Get(follower, "nickname"),
             Get(follower, "followerCount"), Get(follower, "followingCount"),
             Get(follower, "videoCount"),
             IF "verified" \in DOMAIN follower THEN follower.verified ELSE FALSE>>)

\* the user block that opens the CSV file of a user run
UserFieldRows(user_data) ==
    <<CsvRow("header", FIELD_COLUMNS),
      CsvRow("field", <<"User", "username", Get(user_data, "uniqueId")>>),
      CsvRow("field", <<"User", "nickname", Get(user_data, "nickname")>>),
      CsvRow("field", <<"User", "followers", Get(user_data, "followerCount")>>),
      CsvRow("field", <<"User", "following", Get(user_data, "followingCount")>>),
      CsvRow("field", <<"User", "videos", Get(user_data, "videoCount")>>),
      CsvRow("blank", <<>>)>>

UserCsv(user_data, vids) ==
    UserFieldRows(user_data) \o <<CsvRow("header", USER_VIDEO_COLUMNS)>>
        \o [i \in 1..Len(vids) |-> UserVideoRow(vids[i])]

MockUserCsv(user_data, vids, flws, include_followers) ==
    UserFieldRows(user_data)
        \o (IF include_followers /\ flws # <<>>
            THEN <<CsvRow("header", FOLLOWER_COLUMNS)>>
                     \o [i \in 1..Len(flws) |-> FollowerRow(flws[i])]
            ELSE <<CsvRow("header", USER_VIDEO_COLUMNS)>>
                     \o [i \in 1..Len(vids) |-> UserVideoRow(vids[i])])

FeedCsv(vids) ==
    <<CsvRow("header", FEED_VIDEO_COLUMNS)>>
        \o [i \in 1..Len(vids) |-> FeedVideoRow(vids[i])]

VideoCsv(video_info, cmts, include_comments) ==
    <<CsvRow("header", FIELD_COLUMNS),
      CsvRow("field", <<"Video", "id", Get(video_info, "id")>>),
      CsvRow("field", <<"Video", "description", Get(video_info, "desc")>>),
      CsvRow("field", <<"Video", "author", Get(Get(video_info, "author"), "uniqueId")>>),
      CsvRow("field", <<"Video", "likes", Get(Get(video_info, "stats"), "diggCount")>>),
      CsvRow("field", <<"Video", "shares", Get(Get(video_info, "stats"), "shareCount")>>),
      CsvRow("field",
             <<"Video", "comments", Get(Get(video_info, "stats"), "commentCount")>>),
      CsvRow("field", <<"Video", "views", Get(Get(video_info, "stats"), "playCount")>>)>>
        \o (IF include_comments /\ cmts # <<>>
            THEN <<CsvRow("blank", <<>>), CsvRow("header", COMMENT_COLUMNS)>>
                     \o [i \in 1..Len(cmts) |-> CommentRow(cmts[i])]
            ELSE <<>>)

(***************************************************************************)
(* The output_data objects, and the file written from one.                 *)
(***************************************************************************)
UserJson(user_data, vids) ==
    [user |-> user_data, videos |-> vids, extracted_at |-> "now", total_videos |-> Len(vids)]

FeedJson(vids) == [videos |-> vids, extracted_at |-> "now", total_videos |-> Len(vids)]

HashtagJson(hashtag, vids) == [hashtag |-> hashtag] @@ FeedJson(vids)

VideoJson(video_info, cmts, include_comments) ==
    [video |-> video_info, extracted_at |-> "now"]
        @@ (IF include_comments
            THEN [comments |-> cmts, total_comments |-> Len(cmts)]
            ELSE <<>>)

MockMarks ==
    [mock_mode |-> TRUE,
     note |-> "This is mock/test data generated for testing purposes"]

\* a fault: the videos keys are written next to the followers keys
MockUserJson_WithBoth(user_data, vids, flws, include_followers, quiet) ==
    [user |-> user_data, extracted_at |-> "now",
     videos |-> vids, total_videos |-> Len(vids)]
        @@ (IF include_followers
            THEN [followers |-> flws, total_followers |-> Len(flws)]
            ELSE <<>>)
        @@ (IF quiet THEN <<>> ELSE MockMarks)

MockUserJson(user_data, vids, flws, include_followers, quiet) ==
    [user |-> user_data, extracted_at |-> "now"]
        @@ (IF include_followers
            THEN [followers |-> flws, total_followers |-> Len(flws)]
            ELSE [videos |-> vids, total_videos |-> Len(vids)])
        @@ (IF quiet THEN <<>> ELSE MockMarks)

NoOutput == [format |-> "none"]

\* the if output_format == 'json' ... else of every scrape function
Written(output_format, output_data, rows) ==
    IF output_format = "json"
    THEN [format |-> "json", data |-> output_data]
    ELSE [format |-> "csv", rows |-> rows]

(***************************************************************************)
(* The records the Mock generator makes.  r is the run's random source;    *)
(* the avatar, video and music entries, which nothing reads again, are     *)
(* left out.  createTime is the number of seconds before now.              *)
(***************************************************************************)
generate_mock_user_data(username, r) ==
    [uniqueId |-> username,
     nickname |-> Capitalize(username) \o <<" ", "U", "s", "e", "r">>,
     followerCount |-> Random(r, 1000, 50000000),
     followingCount |-> Random(r, 50, 5000),
     videoCount |-> Random(r, 10, 5000),
     verified |-> Random(r, TRUE, FALSE),
     privateAccount |-> Random(r, TRUE, FALSE),
     bioDescription |-> <<"M", "o", "c", "k", " ", "b", "i", "o", " ", "f", "o", "r", " ">>
                            \o username]

generate_mock_video(index, username, r) ==
    [id |-> RandomId(r, "7", "7"),
     desc |-> <<"M", "o", "c", "k", " ", "v", "i", "d", "e", "o", " ", "d", "e", "s", "c", "r", "i", "p", "t", "i", "o", "n", " ">>
                  \o Str(index + 1)
                  \o <<" ", "-", " ", "T", "h", "i", "s", " ", "i", "s", " ", "a", " ", "t", "e", "s", "t", " ", "v", "i", "d", "e", "o", " ", "f", "o", "r", " ">>
                  \o username,
     createTime |-> Random(r, 0, 86400 * 365),
     author |-> [uniqueId |-> username,
                 nickname |-> Capitalize(username) \o <<" ", "U", "s", "e", "r">>],
     stats |-> [diggCount |-> Random(r, 100, 10000000),
                shareCount |-> Random(r, 10, 1000000),
                commentCount |-> Random(r, 5, 500000),
                playCount |-> Random(r, 1000, 100000000)]]

generate_mock_comment(index, r) ==
    [id |-> RandomId(r, "7", "7"),
     text |-> <<"M", "o", "c", "k", " ", "c", "o", "m", "m", "e", "n", "t", " ">> \o Str(index + 1)
                  \o <<" ", "-", " ", "T", "h", "i", "s", " ", "i", "s", " ", "a", " ", "t", "e", "s", "t", " ", "c", "o", "m", "m", "e", "n", "t">>,
     createTime |-> Random(r, 0, 86400 * 30),
     diggCount |-> Random(r, 0, 10000),
     user |-> [uniqueId |-> <<"u", "s", "e", "r">> \o Str(Random(r, 1, 1000)),
               nickname |-> <<"C", "o", "m", "m", "e", "n", "t", "e", "r", " ">> \o Str(index + 1)]]

generate_mock_follower(index, r) ==
    LET username == Random(r, <<"u", "s", "e", "r">> \o Str(Random(r, 1, 999)),
                              <<"v", "i", "e", "w", "e", "r">> \o Str(Random(r, 1, 99)))
    IN  [id |-> RandomId(r, "1", "9"),
         uniqueId |-> username,
         nickname |-> Capitalize(username) \o <<" ", "U", "s", "e", "r">>,
         followerCount |-> Random(r, 10, 500000),
         followingCount |-> Random(r, 5, 2000),
         videoCount |-> Random(r, 0, 1000),
         verified |-> Random(r, TRUE, FALSE),
         privateAccount |-> Random(r, TRUE, FALSE),
         bioDescription |-> <<"M", "o", "c", "k", " ", "b", "i", "o", " ", "f", "o", "r", " ">>
                                \o username]

(***************************************************************************)
(* The mock_scrape_* functions: the lists made, output_data and the rows   *)
(* of the CSV file.                                                        *)
(***************************************************************************)
MockResult(e, vids, cmts, flws, output_data, rows) ==
    [entity |-> e, videos |-> vids, comments |-> cmts, followers |-> flws,
     output_data |-> output_data, rows |-> rows]

mock_scrape_user(username, limit, include_followers, follower_limit, quiet, r) ==
    LET user_data == generate_mock_user_data(username, r)
        follower_count ==
            IF IntTruthy(follower_limit) THEN follower_limit[1]
            ELSE Min(user_data.followerCount, MOCK_USER_FOLLOWERS)
        video_count ==
            IF IntTruthy(limit) THEN limit[1]
            ELSE Min(user_data.videoCount, MOCK_USER_VIDEOS)
        \* for i in range(n): an empty loop when n <= 0
        flws == IF include_followers
                THEN [k \in 1..follower_count |-> generate_mock_follower(k - 1, r)]
                ELSE <<>>
        vids == IF include_followers THEN <<>>
                ELSE [k \in 1..video_count |-> generate_mock_video(k - 1, username, r)]
    IN  MockResult(user_data, vids, <<>>, flws,
                   MockUserJson(user_data, vids, flws, include_followers, quiet),
                   MockUserCsv(user_data, vids, flws, include_followers))

\* random.choice(trending_users) draws 'user1' or 'famous5'
mock_scrape_trending(limit, r) ==
    LET video_count == IF IntTruthy(limit) THEN limit[1] ELSE MOCK_FEED_DEFAULT
        username == Random(r, <<"u", "s", "e", "r", "1">>, <<"f", "a", "m", "o", "u", "s", "5">>)
        vids == [k \in 1..video_count |-> generate_mock_video(k - 1, username, r)]
    IN  MockResult(<<>>, vids, <<>>, <<>>, FeedJson(vids) @@ MockMarks, FeedCsv(vids))

\* random.choice(hashtag_users) draws 'user1' or 'user9'
mock_scrape_hashtag(hashtag, limit, r) ==
    LET video_count == IF IntTruthy(limit) THEN limit[1] ELSE MOCK_FEED_DEFAULT
        username == Random(r, <<"u", "s", "e", "r", "1">>, <<"u", "s", "e", "r", "9">>)
        mkvideo(i) ==
            LET video == generate_mock_video(i, username, r)
            IN  [video EXCEPT !.desc = <<"#">> \o hashtag \o <<" ">> \o @]
        vids == [k \in 1..video_count |-> mkvideo(k - 1)]
    IN  MockResult(<<>>, vids, <<>>, <<>>, HashtagJson(hashtag, vids) @@ MockMarks,
                   FeedCsv(vids))

\* a fault: a comment limit of 0 counts as no limit and gives the default number
MockComments_ZeroIsDefault(comment_limit, r) ==
    LET n == IF comment_limit = 0 THEN COMMENT_LIMIT_DEFAULT ELSE comment_limit
    IN  [k \in 1..n |-> generate_mock_comment(k - 1, r)]

\* for i in range(comment_limit): comments.append(generate_mock_comment(i))
MockComments(comment_limit, r) ==
    [k \in 1..comment_limit |-> generate_mock_comment(k - 1, r)]

mock_scrape_video(video_id, include_comments, comment_limit, r) ==
    LET video_info ==
            [id |-> video_id,
             desc |-> <<"M", "o", "c", "k", " ", "v", "i", "d", "e", "o", " ", "d", "e", "s", "c", "r", "i", "p", "t", "i", "o", "n", " ", "f", "o", "r", " ">>
                          \o video_id,
             createTime |-> Random(r, 0, 86400 * 30),
             author |-> [uniqueId |-> <<"m", "o", "c", "k", "u", "s", "e", "r">>,
                         nickname |-> <<"M", "o", "c", "k", " ", "U", "s", "e", "r">>],
             stats |-> [diggCount |-> Random(r, 1000, 5000000),
                        shareCount |-> Random(r, 100, 500000),
                        commentCount |-> Random(r, 50, 100000),
                        playCount |-> Random(r, 10000, 10000000)]]
        cmts == IF include_comments THEN MockComments(comment_limit, r) ELSE <<>>
    IN  MockResult(video_info, <<>>, cmts, <<>>,
                   VideoJson(video_info, cmts, include_comments) @@ MockMarks,
                   VideoCsv(video_info, cmts, include_comments))

\* the video id main() of the Mock generator hands to mock_scrape_video
MockVideoId(target, r) ==
    IF Contains(target, TIKTOK_COM)
    THEN LET video_id == IF "/" \in Range(target) THEN LastSegment(target) ELSE target
         IN  IF video_id = <<>> \/ video_id = target THEN RandomId(r, "7", "7")
             ELSE video_id
    ELSE target

\* main() of the Mock generator past the target check: the mode's function
MockRun(a, r) ==
    CASE a.mode = "user" ->
             mock_scrape_user(a.target[1], a.limit, a.followers, a.follower_limit,
                              a.quiet, r)
      [] a.mode = "trending" -> mock_scrape_trending(a.limit, r)
      [] a.mode = "hashtag" -> mock_scrape_hashtag(a.target[1], a.limit, r)
      [] a.mode = "video" ->
             mock_scrape_video(MockVideoId(a.target[1], r), a.comments,
                               a.comment_limit, r)

\* the file name a mock run makes up when no output path is given: its parts
\* between the underscores, each a text, <<"ts">> for the time stamp, and the
\* extension last
MockFileName(a, r) ==
    << <<"tiktok">>, <<a.mode>> >>
        \o (CASE a.mode = "user" ->
                     <<a.target[1]>> \o (IF a.quiet THEN <<>> ELSE << <<"mock">> >>)
              [] a.mode = "trending" -> << <<"mock">> >>
              [] a.mode = "hashtag" -> <<a.target[1], <<"mock">> >>
              [] a.mode = "video" -> <<MockVideoId(a.target[1], r), <<"mock">> >>)
        \o << <<"ts">>, <<a.format>> >>

\* what a mock run prints: the banner of main(), the lines of the mode's function
MockPrinted(a) ==
    (IF a.quiet THEN <<>> ELSE <<"mock_banner">>)
        \o (IF a.mode = "user" /\ a.quiet THEN <<"loading", "saved">>
            ELSE <<"mock_mode", "saved", "mock_note">>)

(***************************************************************************)
(* The command lines and the remote records the model draws.               *)
(***************************************************************************)
\* items a remote stream yields in one run
MaxStream == 3
\* the largest --limit, --comment-limit and --follower-limit given
MaxLimit == 2
\* the comments of the longest remote stream of one repeated comment
MaxComments == 31
\* characters of the longest text
MaxText == 101

\* --target: not given, '', a short and a long text
Targets == {Absent, <<<<>>>>, <<<<"a">>>>, <<Fill(MaxText)>>}

\* --limit and --follower-limit: not given, or an int
Limits == {Absent} \cup {<<n>> : n \in -1..MaxLimit}

\* --comment-limit is an int, COMMENT_LIMIT_DEFAULT when the option is not given
CommentLimits == (-1..MaxLimit) \cup {COMMENT_LIMIT_DEFAULT}

\* the command lines of one mode; an option the mode never reads keeps its default
ArgsOf(mode, targets, sessions, limits, comment_flags, follower_flags, quiet_flags) ==
    {[mode |-> mode, target |-> t, session |-> s, format |-> f, limit |-> l,
      comments |-> c[1], comment_limit |-> c[2],
      followers |-> w[1], follower_limit |-> w[2], quiet |-> q] :
        t \in targets, s \in sessions, f \in {"json", "csv"}, l \in limits,
        c \in comment_flags, w \in follower_flags, q \in quiet_flags}

\* video mode also meets a URL as its target
DispatcherArgs ==
    LET sessions == {Absent, <<<<"t">>>>}
        urls == {<<TIKTOK_COM>>, <<TIKTOK_COM \o <<"/", "7">>>>}
        no_comments == {<<FALSE, COMMENT_LIMIT_DEFAULT>>}
        no_followers == {<<FALSE, Absent>>}
    IN  ArgsOf("user", Targets, sessions, Limits, no_comments, no_followers, {FALSE})
            \cup ArgsOf("trending", {Absent, <<<<"a">>>>}, sessions, Limits,
                        no_comments, no_followers, {FALSE})
            \cup ArgsOf("hashtag", Targets, sessions, Limits, no_comments, no_followers,
                        {FALSE})
            \cup ArgsOf("video", Targets \cup urls, sessions, {Absent},
                        no_comments \cup ({TRUE} \X CommentLimits), no_followers,
                        {FALSE})

MockArgs ==
    LET urls == {<<TIKTOK_COM>>, <<TIKTOK_COM \o <<"/", "7">>>>}
        no_comments == {<<FALSE, COMMENT_LIMIT_DEFAULT>>}
        no_followers == {<<FALSE, Absent>>}
    IN  ArgsOf("user", Targets, {Absent}, Limits, no_comments,
               no_followers \cup ({TRUE} \X Limits), BOOLEAN)
            \cup ArgsOf("trending", {Absent, <<<<"a">>>>}, {Absent}, Limits, no_comments,
                        no_followers, BOOLEAN)
            \cup ArgsOf("hashtag", Targets, {Absent}, Limits, no_comments, no_followers,
                        BOOLEAN)
            \cup ArgsOf("video", Targets \cup urls, {Absent}, {Absent},
                        no_comments \cup ({TRUE} \X CommentLimits), no_followers,
                        BOOLEAN)

\* the records a remote call hands back: open-ended mappings
RemoteUsers ==
    {[uniqueId |-> <<"a">>, nickname |-> <<"A">>, followerCount |-> 1,
      followingCount |-> 2, videoCount |-> 3],
     [uniqueId |-> <<"a">>]}

RemoteVideos ==
    {[id |-> <<"1">>, desc |-> Fill(MaxText), author |-> [uniqueId |-> <<"a">>],
      stats |-> [diggCount |-> 1, shareCount |-> 2, commentCount |-> 3, playCount |-> 4],
      createTime |-> 5],
     [id |-> <<"2">>, desc |-> <<"a">>],
     [id |-> <<"3">>]}

RemoteComments ==
    {[id |-> <<"1">>, text |-> Fill(MaxText), user |-> [uniqueId |-> <<"a">>],
      diggCount |-> 1, createTime |-> 5],
     [id |-> <<"2">>]}

\* what the path given as --session holds: nothing, a token file, or something
\* that exists and cannot be read as text (a directory, a file without read
\* permission)
NoSessionFile == [st |-> "missing", chars |-> <<>>]

SessionFiles ==
    {NoSessionFile, [st |-> "unreadable", chars |-> <<>>],
     [st |-> "file", chars |-> <<"k">>], [st |-> "file", chars |-> <<" ", "k", " ">>]}

ReadSession_PathAsToken(session, file) == session

\* main, lines 396-399: the session argument is the token, unless it is the path
\* of a file, whose stripped content is.  The file is read in text mode, where
\* a carriage return, alone or before a line feed, is read as one line feed.
ReadSession(session, file) ==
    LET RECURSIVE read(_)
        read(cs) ==
            IF cs = <<>> THEN <<>>
            ELSE IF Head(cs) # "\\r" THEN <<Head(cs)>> \o read(Tail(cs))
            ELSE IF Len(cs) > 1 /\ cs[2] = "\\n" THEN read(Tail(cs))
            ELSE <<"\\n">> \o read(Tail(cs))
    IN  IF file.st = "missing" THEN session ELSE Strip(read(file.chars))

(***************************************************************************)
(* State.                                                                  *)
(***************************************************************************)
VARIABLES
    fs,               \* Locator: the browser profiles on disk
    lpc,              \* Locator: where extract_ms_token stands
    preferred,        \* Locator: the preferred_browser argument
    browsers_to_try,  \* Locator: the families of the outer loop
    bi,               \* Locator: index of the family being tried
    enumerated,       \* Locator: per family, the candidates as enumerated
    ranked,           \* Locator: per family, the list its get_*_cookie_files returned
    visited,          \* Locator: the families whose files were enumerated
    ci,               \* Locator: index of the candidate being checked
    attempts,         \* Locator: the extractions made, in order
    ms_token,         \* Locator: the value extract_ms_token returned
    lraised,          \* Locator: the exception that left extract_ms_token
    token_file,       \* Locator CLI: what the output file holds; Absent when untouched
    levents,          \* Locator CLI: what happened to the process so far
    lexit,            \* Locator CLI: how the process ended; -1 while it runs
    xpc,              \* per-file extraction check: "idle", "probed" or "done"
    xprobe,           \* per-file extraction check: what has_tiktok_cookies did
    xfam,             \* per-file extraction check: the family
    xfile,            \* per-file extraction check: the cookie file
    xres,             \* per-file extraction check: the result of the call
    xsaved,           \* per-file extraction check: the token file save_ms_token left
    xhanded,          \* per-file extraction check: ms_token of a Dispatcher given its path
    rpc,              \* ranking check: "idle" or "done"
    rfam,             \* ranking check: the family
    rfiles,           \* ranking check: the candidates as enumerated
    rranked,          \* ranking check: the list returned
    prog,             \* scrape: the program run, "dispatcher" or "mock"
    args,             \* scrape: the command line as argparse reads it
    rnd,              \* scrape: what the random source of the run draws
    stream,           \* scrape: the remote stream, "finite" or "endless"
    beyond,           \* scrape: parity of the items consumed beyond those kept
    spc,              \* scrape: where the run stands
    sessions,         \* scrape: the create_sessions calls made
    session_file,     \* scrape: what the path given as --session holds
    dtoken,           \* scrape: ms_token of main(); Absent until it is set
    handed,           \* scrape: the arguments of each create_sessions call
    count,            \* scrape: the count asked of the remote stream; Absent before
    entity,           \* scrape: user_data or video_info
    videos,           \* scrape: the videos list
    comments,         \* scrape: the comments list
    followers,        \* scrape: the followers list
    out_file,         \* scrape: the output file
    printed,          \* scrape: the kinds of message printed, in order
    exit_status       \* scrape: the exit status; -1 while the process runs

lvars ==
    <<fs, lpc, preferred, browsers_to_try, bi, enumerated, ranked, visited, ci,
      attempts, ms_token, lraised>>

xvars == <<xpc, xfam, xfile, xprobe, xres, xsaved, xhanded>>

rvars == <<rpc, rfam, rfiles, rranked>>

svars ==
    <<prog, args, rnd, stream, beyond, spc, sessions, session_file, dtoken, handed, count, entity,
      videos, comments, followers, out_file, printed, exit_status>>

cvars == <<token_file, levents, lexit>>

vars == <<lvars, cvars, xvars, rvars, svars>>

NoLists == [fam \in Families |-> <<>>]

LocatorIdle(t) ==
    /\ fs = t
    /\ lpc = "idle"
    /\ preferred = "none"
    /\ browsers_to_try = <<>>
    /\ bi = 0
    /\ enumerated = NoLists
    /\ ranked = NoLists
    /\ visited = {}
    /\ ci = 0
    /\ attempts = <<>>
    /\ ms_token = None
    /\ lraised = "none"
    /\ token_file = Absent
    /\ levents = {}
    /\ lexit = -1

NoFileSystem ==
    [firefox |-> <<>>,
     chrome |-> [base |-> FALSE, default |-> NoFile("missing"), profiles |-> <<>>],
     edge |-> [base |-> FALSE, default |-> NoFile("missing"), profiles |-> <<>>]]

ExtractIdle ==
    /\ xpc = "idle"
    /\ xfam = "firefox"
    /\ xfile = NoFile("missing")
    /\ xprobe = [found |-> FALSE, raised |-> "none", closed |-> FALSE]
    /\ xres = Result(None, "none", {})
    /\ xsaved = [file |-> Absent, ok |-> FALSE]
    /\ xhanded = Absent

RankIdle ==
    /\ rpc = "idle"
    /\ rfam = "firefox"
    /\ rfiles = <<>>
    /\ rranked = <<>>

ScrapeIdle ==
    /\ prog = "dispatcher"
    /\ args = [mode |-> "trending", target |-> Absent, session |-> Absent,
               format |-> "json", limit |-> Absent, comments |-> FALSE,
               comment_limit |-> COMMENT_LIMIT_DEFAULT, followers |-> FALSE,
               follower_limit |-> Absent, quiet |-> FALSE]
    /\ rnd = "lo"
    /\ stream = "finite"
    /\ beyond = 0
    /\ spc = "start"
    /\ sessions = 0
    /\ session_file = NoSessionFile
    /\ dtoken = Absent
    /\ handed = <<>>
    /\ count = Absent
    /\ entity = <<>>
    /\ videos = <<>>
    /\ comments = <<>>
    /\ followers = <<>>
    /\ out_file = NoOutput
    /\ printed = <<>>
    /\ exit_status = -1

(***************************************************************************)
(* The Locator: extract_ms_token, one action per step of its loops.        *)
(***************************************************************************)
Enumerate(fam) ==
    IF fam = "firefox" THEN EnumerateFirefox(fs.firefox)
    ELSE EnumerateChromeEdge(fam, fs[fam])

\* get_firefox_cookie_files / get_chrome_cookie_files / get_edge_cookie_files
GetCookieFiles(fam) ==
    IF fam = "firefox" THEN RankFirefox(Enumerate(fam))
    ELSE RankChromeEdge(Enumerate(fam))

\* the call is entered: browsers_to_try is set
LStart ==
    /\ lpc = "idle"
    /\ \E p \in Preferences :
        /\ preferred' = p
        /\ browsers_to_try' = BrowsersToTry(p)
    /\ bi' = 1
    /\ lpc' = "loop"
    /\ UNCHANGED <<fs, enumerated, ranked, visited, ci, attempts, ms_token, lraised>>
    /\ UNCHANGED <<cvars, xvars, rvars, svars>>

\* the head of the outer loop: the family's files are fetched; no files, next family
LEnumerate ==
    /\ lpc = "loop"
    /\ bi <= Len(browsers_to_try)
    /\ LET browser == browsers_to_try[bi]
           exc == RankRaised(Enumerate(browser), browser = "firefox")
           cookie_files == GetCookieFiles(browser)
       IN  /\ visited' = visited \cup {browser}
           /\ enumerated' = [enumerated EXCEPT ![browser] = Enumerate(browser)]
           /\ IF exc # "none"
              THEN /\ lraised' = exc
                   /\ lpc' = "raised"
                   /\ UNCHANGED <<ranked, bi, ci>>
              ELSE /\ ranked' = [ranked EXCEPT ![browser] = cookie_files]
                   /\ lraised' = lraised
                   /\ IF cookie_files = <<>>
                      THEN bi' = bi + 1 /\ UNCHANGED <<lpc, ci>>
                      ELSE bi' = bi /\ ci' = 1 /\ lpc' = "cands"
    /\ UNCHANGED <<fs, preferred, browsers_to_try, attempts, ms_token>>
    /\ UNCHANGED <<cvars, xvars, rvars, svars>>

\* a fault: a token found ends the inner loop only (break for return)
LCheck_BreaksOnly ==
    /\ lpc = "cands"
    /\ LET browser == browsers_to_try[bi]
           cookiefile == ranked[browser][ci]
           r == ExtractFrom(browser, cookiefile.file)
       IN  /\ attempts' = Append(attempts, [path |-> cookiefile.path, res |-> r])
           /\ IF r.raised # "none"
              THEN /\ lraised' = r.raised
                   /\ lpc' = "raised"
                   /\ UNCHANGED <<bi, ci, ms_token>>
              ELSE IF ~Truthy(r.tok) /\ ci < Len(ranked[browser])
              THEN /\ ci' = ci + 1
                   /\ UNCHANGED <<bi, lpc, ms_token, lraised>>
              ELSE /\ bi' = bi + 1
                   /\ lpc' = "loop"
                   /\ ms_token' = IF Truthy(r.tok) THEN r.tok ELSE ms_token
                   /\ UNCHANGED <<ci, lraised>>
    /\ UNCHANGED <<fs, preferred, browsers_to_try, enumerated, ranked, visited>>
    /\ UNCHANGED <<cvars, xvars, rvars, svars>>

\* the body of the inner loop: one candidate is extracted from
LCheck ==
    /\ lpc = "cands"
    /\ LET browser == browsers_to_try[bi]
           cookiefile == ranked[browser][ci]
           r == ExtractFrom(browser, cookiefile.file)
       IN  /\ attempts' = Append(attempts, [path |-> cookiefile.path, res |-> r])
           /\ IF r.raised # "none"
              THEN /\ lraised' = r.raised
                   /\ lpc' = "raised"
                   /\ UNCHANGED <<bi, ci, ms_token>>
              ELSE IF Truthy(r.tok)
              THEN /\ ms_token' = r.tok
                   /\ lpc' = "done"
                   /\ UNCHANGED <<bi, ci, lraised>>
              ELSE IF ci < Len(ranked[browser])
              THEN /\ ci' = ci + 1
                   /\ UNCHANGED <<bi, lpc, ms_token, lraised>>
              ELSE /\ bi' = bi + 1
                   /\ lpc' = "loop"
                   /\ UNCHANGED <<ci, ms_token, lraised>>
    /\ UNCHANGED <<fs, preferred, browsers_to_try, enumerated, ranked, visited>>
    /\ UNCHANGED <<cvars, xvars, rvars, svars>>

\* the outer loop has run out: return None
LReturnNone ==
    /\ lpc = "loop"
    /\ bi > Len(browsers_to_try)
    /\ lpc' = "done"
    /\ ms_token' = None
    /\ UNCHANGED <<fs, preferred, browsers_to_try, bi, enumerated, ranked, visited,
                   ci, attempts, lraised>>
    /\ UNCHANGED <<cvars, xvars, rvars, svars>>

(***************************************************************************)
(* The Locator CLI: the main section around the call of extract_ms_token.  *)
(* lpc is "idle", "loop", "cands" or "done" while the try block runs,      *)
(* "interrupted" or "error" while a top-level handler runs, "exited" at    *)
(* the end of the process.                                                 *)
(***************************************************************************)
\* --browser: the choices argparse accepts, and none
CliChoices == {"none", "firefox", "chrome", "edge"}

\* save_ms_token: file, what the output file holds afterwards; ok, the value
\* returned.  disk is what open(output_file, 'w') and the write meet at the
\* output path; open(.., 'w') empties the file before a write can fail, and
\* the write of a bytes token to the text file fails with a TypeError.
save_ms_token(token, before, disk) ==
    CASE disk = "unopenable" -> [file |-> before, ok |-> FALSE]
      [] disk = "writable" /\ token.type = "str" ->
             [file |-> <<Strip(token.chars)>>, ok |-> TRUE]
      [] OTHER -> [file |-> << <<>> >>, ok |-> FALSE]

MainStatus_AlwaysZero(token) == 0

\* the status the try block passes to sys.exit
MainStatus(token) == IF Truthy(token) THEN 0 ELSE 1

\* sys.exit(status) ends the interpreter, which flushes the buffered standard
\* output on its way out; CPython replaces the status by 120 when that fails
Exit(status, flushed) == IF flushed THEN status ELSE 120

\* lines 449-459: the token is printed or saved, or its absence is reported.
\* print(ms_token) is the one print of cookie data; when it raises, the
\* except Exception handler is entered.
LMainTail ==
    /\ lpc = "done"
    /\ preferred \in CliChoices
    /\ \E stdout, printable, flushed \in BOOLEAN, disk \in {"writable", "unopenable", "full"} :
        IF Truthy(ms_token) /\ stdout /\ ~printable
        THEN /\ lpc' = "error"
             /\ levents' = levents \cup {"error"}
             /\ UNCHANGED <<token_file, lexit>>
        ELSE LET saved == save_ms_token(ms_token, token_file, disk)
                 done == IF ~Truthy(ms_token) THEN {"not_found"}
                         ELSE IF stdout THEN {"printed"}
                         ELSE IF saved.ok THEN {"saved"} ELSE {"save_failed"}
             IN  /\ lpc' = "exited"
                 /\ token_file' = IF Truthy(ms_token) /\ ~stdout THEN saved.file
                                  ELSE token_file
                 /\ levents' = levents \cup done
                                  \cup (IF flushed THEN {} ELSE {"flush_failed"})
                 /\ lexit' = Exit(MainStatus(ms_token), flushed)
    /\ UNCHANGED <<fs, preferred, browsers_to_try, bi, enumerated, ranked, visited,
                   ci, attempts, ms_token, lraised>>
    /\ UNCHANGED <<xvars, rvars, svars>>

\* SIGINT is delivered: KeyboardInterrupt is raised where the process stands.
\* Inside the try block the except KeyboardInterrupt handler is entered; the
\* two handlers are inside no try block, so there the interrupt is not caught
\* and the interpreter ends the process by SIGINT, which a shell shows as 130.
LInterrupt ==
    /\ lpc \in {"idle", "loop", "cands", "done", "interrupted", "error"}
    /\ preferred \in CliChoices
    /\ IF lpc \in {"interrupted", "error"}
       THEN /\ lpc' = "exited"
            /\ levents' = levents \cup {"handler_interrupt"}
            /\ lexit' = 128 + 2
       ELSE /\ lpc' = "interrupted"
            /\ levents' = levents \cup {"interrupt"}
            /\ lexit' = lexit
    /\ UNCHANGED <<fs, preferred, browsers_to_try, bi, enumerated, ranked, visited,
                   ci, attempts, ms_token, lraised, token_file>>
    /\ UNCHANGED <<xvars, rvars, svars>>

\* lines 462-468: a top-level handler reports and calls sys.exit(1)
LHandler ==
    /\ lpc \in {"interrupted", "error"}
    /\ \E flushed \in BOOLEAN :
        /\ levents' = levents \cup (IF flushed THEN {} ELSE {"flush_failed"})
        /\ lexit' = Exit(1, flushed)
    /\ lpc' = "exited"
    /\ UNCHANGED <<fs, preferred, browsers_to_try, bi, enumerated, ranked, visited,
                   ci, attempts, ms_token, lraised, token_file>>
    /\ UNCHANGED <<xvars, rvars, svars>>

Init ==
    /\ \E t \in FileSystems : LocatorIdle(t)
    /\ ExtractIdle
    /\ RankIdle
    /\ ScrapeIdle

Next ==
    LStart \/ LEnumerate \/ LCheck \/ LReturnNone \/ LMainTail \/ LInterrupt \/ LHandler

\* a run of extract_ms_token, and of the CLI around it, over any profiles on disk
Spec == Init /\ [][Next]_vars

(***************************************************************************)
(* The per-file extraction applied to every cookie file.                   *)
(***************************************************************************)
\* the probe of the file, as the ranking of its family calls it
XProbe ==
    /\ xpc = "idle"
    /\ xprobe' = has_tiktok_cookies(xfile, xfam = "firefox")
    /\ xpc' = "probed"
    /\ UNCHANGED <<xfam, xfile, xres, xsaved, xhanded, lvars, cvars, rvars, svars>>

\* the extraction of a file and, of a token it returns, save_ms_token to a
\* writable path and the reading main() of the Dispatcher does of that path
XExtract ==
    /\ xpc = "probed"
    /\ LET res == ExtractFrom(xfam, xfile)
           saved == save_ms_token(res.tok, Absent, "writable")
       IN  /\ xres' = res
           /\ IF Truthy(res.tok)
              THEN /\ xsaved' = saved
                   /\ xhanded' = <<ReadSession(<<"p">>, [st |-> "file", chars |-> saved.file[1]])>>
              ELSE UNCHANGED <<xsaved, xhanded>>
    /\ xpc' = "done"
    /\ UNCHANGED <<xfam, xfile, xprobe, lvars, cvars, rvars, svars>>

InitExtract ==
    /\ LocatorIdle(NoFileSystem)
    /\ RankIdle
    /\ xpc = "idle"
    /\ xfam \in {"firefox", "chrome"}
    /\ xfile \in AllFiles
    /\ xprobe = [found |-> FALSE, raised |-> "none", closed |-> FALSE]
    /\ xres = Result(None, "none", {})
    /\ xsaved = [file |-> Absent, ok |-> FALSE]
    /\ xhanded = Absent
    /\ ScrapeIdle

NextExtract == XProbe \/ XExtract

SpecExtract == InitExtract /\ [][NextExtract]_vars

(***************************************************************************)
(* get_*_cookie_files applied to every profile directory of one family.    *)
(***************************************************************************)
RRankFirefox ==
    /\ rpc = "idle"
    /\ \E prof \in SeqsUpTo(RankFiles, MaxProfiles) :
        LET cookiefiles == EnumerateFirefox(prof)
        IN  /\ rfiles' = cookiefiles
            /\ rranked' = RankFirefox(cookiefiles)
    /\ rfam' = "firefox"
    /\ rpc' = "done"
    /\ UNCHANGED <<lvars, cvars, xvars, svars>>

RRankChromeEdge ==
    /\ rpc = "idle"
    /\ \E fam \in {"chrome", "edge"}, n \in 0..MaxProfiles :
        \E d \in ProfileDirs(n, BOOLEAN, RankFiles) :
            LET cookiefiles == EnumerateChromeEdge(fam, d)
            IN  /\ rfam' = fam
                /\ rfiles' = cookiefiles
                /\ rranked' = RankChromeEdge(cookiefiles)
    /\ rpc' = "done"
    /\ UNCHANGED <<lvars, cvars, xvars, svars>>

InitRank ==
    /\ LocatorIdle(NoFileSystem)
    /\ ExtractIdle
    /\ RankIdle
    /\ ScrapeIdle

NextRank == RRankFirefox \/ RRankChromeEdge

SpecRank == InitRank /\ [][NextRank]_vars

(***************************************************************************)
(* The Dispatcher: one action per suspension point of a scrape_* coroutine *)
(* and one for main().  spc is "start" before main(), "opening" while      *)
(* create_sessions is awaited, "info" while user.info() or video.info() is *)
(* awaited, "fetching" while the next item of the stream is awaited,       *)
(* "serializing" from "Prepare output data" on, "done" after the file is   *)
(* written (exit 0), "failed" after sys.exit(1), "rejected" after argparse *)
(* has refused the command line (exit 2), "crashed" after an exception     *)
(* has left main().                                                        *)
(***************************************************************************)
\* the file a scrape_* function writes once its loop is over
DispatcherOutput(a, e, vids, cmts) ==
    CASE a.mode = "user" -> Written(a.format, UserJson(e, vids), UserCsv(e, vids))
      [] a.mode = "trending" -> Written(a.format, FeedJson(vids), FeedCsv(vids))
      [] a.mode = "hashtag" ->
             Written(a.format, HashtagJson(a.target[1], vids), FeedCsv(vids))
      [] a.mode = "video" ->
             Written(a.format, VideoJson(e, cmts, a.comments),
                     VideoCsv(e, cmts, a.comments))

\* the loop is left, or there is none: "Prepare output data" comes next
Finish ==
    /\ spc' = "serializing"
    /\ UNCHANGED <<out_file, printed, exit_status>>

\* main(): parse_args, then the mode's coroutine up to its create_sessions
DMain ==
    /\ prog = "dispatcher"
    /\ spc = "start"
    /\ IF args.target = Absent \/ args.session = Absent
       THEN /\ printed' = Append(printed, "usage_error")
            /\ spc' = "rejected"
            /\ exit_status' = 2
            /\ UNCHANGED dtoken
       ELSE IF session_file.st = "unreadable"
       THEN \* open() or read() raises inside no try block
            /\ printed' = Append(printed, "traceback")
            /\ spc' = "crashed"
            /\ exit_status' = 1
            /\ UNCHANGED dtoken
       ELSE /\ dtoken' = <<ReadSession(args.session[1], session_file)>>
            /\ printed' = Append(printed, "initializing")
            /\ spc' = "opening"
            /\ UNCHANGED exit_status
    /\ UNCHANGED <<prog, args, rnd, stream, beyond, sessions, session_file, handed, count, entity,
                   videos, comments, followers, out_file>>
    /\ UNCHANGED <<lvars, cvars, xvars, rvars>>

\* the call of lines 46-51; ok, whether it returned
CreateSessions(token, ok) ==
    [ms_tokens |-> <<token>>, num_sessions |-> 1, ok |-> ok]

\* the count argument of user.videos, trending.videos, tag.videos, video.comments
StreamCount(a) ==
    CASE a.mode = "user" ->
             IF IntTruthy(a.limit) THEN a.limit[1] ELSE USER_COUNT_DEFAULT
      [] a.mode \in {"trending", "hashtag"} ->
             IF IntTruthy(a.limit) THEN a.limit[1] ELSE FEED_COUNT_DEFAULT
      [] a.mode = "video" -> a.comment_limit

\* create_sessions returns
DSessionOpen ==
    /\ prog = "dispatcher"
    /\ spc = "opening"
    /\ sessions' = sessions + 1
    /\ handed' = Append(handed, CreateSessions(dtoken[1], TRUE))
    /\ spc' = IF args.mode \in {"user", "video"} THEN "info" ELSE "fetching"
    /\ count' = IF args.mode \in {"user", "video"} THEN count ELSE <<StreamCount(args)>>
    /\ UNCHANGED <<prog, args, rnd, stream, beyond, session_file, dtoken, entity, videos, comments,
                   followers, out_file, printed, exit_status>>
    /\ UNCHANGED <<lvars, cvars, xvars, rvars>>

\* user.info() or video.info() returns
DInfo ==
    /\ prog = "dispatcher"
    /\ spc = "info"
    /\ \E d \in IF args.mode = "user" THEN RemoteUsers ELSE RemoteVideos :
        /\ entity' = d
        /\ IF args.mode = "video" /\ ~args.comments
           THEN Finish /\ UNCHANGED count
           ELSE /\ spc' = "fetching"
                /\ count' = <<StreamCount(args)>>
                /\ UNCHANGED <<out_file, printed, exit_status>>
    /\ UNCHANGED <<prog, args, rnd, stream, beyond, sessions, session_file, dtoken, handed, videos,
                   comments, followers>>
    /\ UNCHANGED <<lvars, cvars, xvars, rvars>>

\* the stream yields a video: the body of the async for of scrape_user,
\* scrape_trending and scrape_hashtag.  Of a stream that never ends the first
\* MaxStream videos are kept; the loop goes on with the list as it is, and
\* beyond turns with every further video.
DFetchVideo ==
    /\ prog = "dispatcher"
    /\ spc = "fetching"
    /\ args.mode # "video"
    /\ Len(videos) < MaxStream \/ stream = "endless"
    /\ \E video \in RemoteVideos :
        LET vids == IF Len(videos) < MaxStream THEN Append(videos, video) ELSE videos
        IN  /\ videos' = vids
            /\ beyond' = IF Len(videos) < MaxStream THEN beyond ELSE 1 - beyond
            /\ IF IntTruthy(args.limit) /\ Len(vids) >= args.limit[1]
               THEN Finish
               ELSE UNCHANGED <<spc, out_file, printed, exit_status>>
    /\ UNCHANGED <<prog, args, rnd, stream, sessions, session_file, dtoken, handed, count,
                   entity, comments, followers>>
    /\ UNCHANGED <<lvars, cvars, xvars, rvars>>

\* the stream yields a comment: the body of the async for of scrape_video.
\* A stream of more than MaxStream comments repeats one comment; of a stream
\* that never ends the loop goes on beyond the comments the model keeps.
DFetchComment ==
    /\ prog = "dispatcher"
    /\ spc = "fetching"
    /\ args.mode = "video"
    /\ \E comment \in RemoteComments :
        LET kept == \/ Len(comments) < MaxStream
                    \/ /\ Len(comments) < MaxComments
                       /\ \A i \in 1..Len(comments) : comments[i] = comment
        IN  /\ kept \/ stream = "endless"
            /\ comments' = IF kept THEN Append(comments, comment) ELSE comments
            /\ beyond' = IF kept THEN beyond ELSE 1 - beyond
    /\ UNCHANGED <<prog, args, rnd, stream, spc, sessions, session_file, dtoken, handed,
                   count, entity, videos, followers, out_file, printed, exit_status>>
    /\ UNCHANGED <<lvars, cvars, xvars, rvars>>

\* the stream ends
DStreamEnd ==
    /\ prog = "dispatcher"
    /\ spc = "fetching"
    /\ stream = "finite"
    /\ Finish
    /\ UNCHANGED <<prog, args, rnd, stream, beyond, sessions, session_file, dtoken, handed, count,
                   entity, videos, comments, followers>>
    /\ UNCHANGED <<lvars, cvars, xvars, rvars>>

\* from "Prepare output data" to the end of the function: the file is written
DSerialize ==
    /\ prog = "dispatcher"
    /\ spc = "serializing"
    /\ out_file' = DispatcherOutput(args, entity, videos, comments)
    /\ printed' = Append(printed, "saved")
    /\ spc' = "done"
    /\ exit_status' = 0
    /\ UNCHANGED <<prog, args, rnd, stream, beyond, sessions, session_file, dtoken, handed, count,
                   entity, videos, comments, followers>>
    /\ UNCHANGED <<lvars, cvars, xvars, rvars>>

\* open(output_file, 'w') or a write raises inside the try block: the file is
\* untouched when it could not be opened, and holds a part of the output when
\* a write failed after open() had emptied it
DWriteError ==
    /\ prog = "dispatcher"
    /\ spc = "serializing"
    /\ out_file' \in {out_file, [format |-> "partial"]}
    /\ printed' = Append(printed, "error")
    /\ spc' = "failed"
    /\ exit_status' = 1
    /\ UNCHANGED <<prog, args, rnd, stream, beyond, sessions, session_file, dtoken, handed, count,
                   entity, videos, comments, followers>>
    /\ UNCHANGED <<lvars, cvars, xvars, rvars>>

DRemoteError_Retries ==
    /\ prog = "dispatcher"
    /\ spc \in {"opening", "info", "fetching"}
    /\ spc' = "opening"
    /\ sessions' = IF spc = "opening" THEN sessions + 1 ELSE sessions
    /\ handed' = IF spc = "opening" THEN Append(handed, CreateSessions(dtoken[1], FALSE))
                 ELSE handed
    /\ count' = Absent
    /\ printed' = Append(printed, "error")
    /\ UNCHANGED <<prog, args, rnd, stream, beyond, session_file, dtoken, entity, videos, comments,
                   followers, out_file, exit_status>>
    /\ UNCHANGED <<lvars, cvars, xvars, rvars>>

DRemoteError_SavesPartial ==
    /\ prog = "dispatcher"
    /\ spc \in {"opening", "info", "fetching"}
    /\ sessions' = IF spc = "opening" THEN sessions + 1 ELSE sessions
    /\ handed' = IF spc = "opening" THEN Append(handed, CreateSessions(dtoken[1], FALSE))
                 ELSE handed
    /\ out_file' = DispatcherOutput(args, entity, videos, comments)
    /\ printed' = Append(printed, "error")
    /\ spc' = "failed"
    /\ exit_status' = 1
    /\ UNCHANGED <<prog, args, rnd, stream, beyond, session_file, dtoken, count, entity, videos,
                   comments, followers>>
    /\ UNCHANGED <<lvars, cvars, xvars, rvars>>

\* the awaited remote call raises: except Exception, traceback, sys.exit(1)
DRemoteError ==
    /\ prog = "dispatcher"
    /\ spc \in {"opening", "info", "fetching"}
    /\ sessions' = IF spc = "opening" THEN sessions + 1 ELSE sessions
    /\ handed' = IF spc = "opening" THEN Append(handed, CreateSessions(dtoken[1], FALSE))
                 ELSE handed
    /\ printed' = Append(printed, "error")
    /\ spc' = "failed"
    /\ exit_status' = 1
    /\ UNCHANGED <<prog, args, rnd, stream, beyond, session_file, dtoken, count, entity, videos,
                   comments, followers, out_file>>
    /\ UNCHANGED <<lvars, cvars, xvars, rvars>>

(***************************************************************************)
(* The Mock generator: main() runs to the end in one step.                 *)
(***************************************************************************)
MMain ==
    /\ prog = "mock"
    /\ spc = "start"
    /\ IF args.mode \in {"user", "hashtag", "video"} /\ ~StrTruthy(args.target)
       THEN /\ printed' = (IF args.quiet THEN <<>> ELSE <<"mock_banner">>)
                              \o <<"target_required">>
            /\ spc' = "failed"
            /\ exit_status' = 1
            /\ UNCHANGED <<entity, videos, comments, followers, out_file>>
       ELSE LET m == MockRun(args, rnd)
            IN  /\ entity' = m.entity
                /\ videos' = m.videos
                /\ comments' = m.comments
                /\ followers' = m.followers
                /\ out_file' = Written(args.format, m.output_data, m.rows)
                                  @@ [name |-> MockFileName(args, rnd)]
                /\ printed' = MockPrinted(args)
                /\ spc' = "done"
                /\ exit_status' = 0
    /\ UNCHANGED <<prog, args, rnd, stream, beyond, sessions, session_file, dtoken, handed, count>>
    /\ UNCHANGED <<lvars, cvars, xvars, rvars>>

InitScrape ==
    /\ LocatorIdle(NoFileSystem)
    /\ ExtractIdle
    /\ RankIdle
    /\ \/ /\ prog = "dispatcher"
          /\ args \in DispatcherArgs
          /\ rnd = "lo"
          /\ \/ /\ stream = "finite"
                /\ session_file \in SessionFiles
                /\ out_file \in {NoOutput, [format |-> "old"]}
             \/ /\ stream = "endless"
                /\ session_file = NoSessionFile
                /\ out_file = NoOutput
       \/ /\ prog = "mock"
          /\ args \in MockArgs
          /\ rnd \in {"lo", "hi"}
          /\ stream = "finite"
          /\ session_file = NoSessionFile
          /\ out_file = NoOutput
    /\ beyond = 0
    /\ spc = "start"
    /\ sessions = 0
    /\ dtoken = Absent
    /\ handed = <<>>
    /\ count = Absent
    /\ entity = <<>>
    /\ videos = <<>>
    /\ comments = <<>>
    /\ followers = <<>>
    /\ printed = <<>>
    /\ exit_status = -1

NextScrape ==
    DMain \/ DSessionOpen \/ DInfo \/ DFetchVideo \/ DFetchComment \/ DStreamEnd
        \/ DSerialize \/ DWriteError \/ DRemoteError \/ MMain

\* a run of the Dispatcher or of the Mock generator on any command line
SpecScrape == InitScrape /\ [][NextScrape]_vars

\* the steps of a Dispatcher run that raise no error
DProgress ==
    DMain \/ DSessionOpen \/ DInfo \/ DFetchVideo \/ DFetchComment \/ DStreamEnd
        \/ DSerialize

\* such a run when every remote call returns and the process is scheduled:
\* a step that raises no error is taken whenever one stays possible
SpecScrapeLive == SpecScrape /\ WF_vars(DProgress)

(***************************************************************************)
(* Properties of the Locator.                                              *)
(***************************************************************************)
Count(s, e) == Cardinality({i \in 1..Len(s) : s[i] = e})

IsPermutation(s, t) ==
    /\ Len(s) = Len(t)
    /\ \A e \in Range(s) \cup Range(t) : Count(s, e) = Count(t, e)

\* the probe as the ranking of a family applies it
Probed(fam, c) == has_tiktok_cookies(c.file, fam = "firefox").found

\* out holds the candidates of inp, those the probe accepts first, each group
\* in the order it has in inp
StablePartition(fam, out, inp) ==
    LET has == {c \in Range(inp) \cup Range(out) : Probed(fam, c)}
    IN  /\ IsPermutation(out, inp)
        /\ \A i, j \in 1..Len(out) : (i < j /\ out[j] \in has) => out[i] \in has
        /\ SelectSeq(out, LAMBDA c : c \in has) = SelectSeq(inp, LAMBDA c : c \in has)
        /\ SelectSeq(out, LAMBDA c : c \notin has) = SelectSeq(inp, LAMBDA c : c \notin has)

\* C1 as stated: for each family the ranked list is a permutation of the
\* enumerated candidates, probe-true candidates before probe-false ones, the
\* original order kept inside each group.
C1_RankIsPermutation == rpc = "done" => StablePartition(rfam, rranked, rfiles)

\* C1, amended: the ranked list is such a stable partition of the enumerated
\* candidates for Firefox, and for Chrome and Edge of the enumerated candidates
\* whose file exists when the list is ranked (the others are dropped).
C1_RankStablePartition ==
    rpc = "done" =>
        StablePartition(rfam, rranked,
                        IF rfam = "firefox" THEN rfiles
                        ELSE SelectSeq(rfiles, LAMBDA c : Exists(c.file)))

\* a Chrome or Edge ranking that drops a candidate and moves a probe-true
\* candidate ahead of a probe-false one
C1_Witness ==
    /\ rpc = "done"
    /\ rfam # "firefox"
    /\ Len(rranked) < Len(rfiles)
    /\ \E i, j \in 1..Len(rfiles) :
        /\ i < j
        /\ Exists(rfiles[i].file) /\ ~Probed(rfam, rfiles[i])
        /\ Probed(rfam, rfiles[j])

\* every candidate on disk, family by family
AllCandidates ==
    [fam \in Families |->
        IF fam = "firefox" THEN EnumerateFirefox(fs.firefox)
        ELSE EnumerateChromeEdge(fam, fs[fam])]

Extractable(fam, c) == Truthy(ExtractFrom(fam, c.file).tok)

\* C2: extract_ms_token never raises, whatever the candidate files hold, and
\* returns None when no candidate holds an extractable token.
C2_NeverRaises ==
    /\ lpc # "raised"
    /\ lraised = "none"
    /\ (lpc = "done" /\ \A fam \in Families :
                            \A c \in Range(AllCandidates[fam]) : ~Extractable(fam, c))
          => ms_token = None

\* a run over all families that met a file that is no database and a file that
\* cannot be opened, and returned None
C2_Witness ==
    /\ lpc = "done"
    /\ ms_token = None
    /\ \E i, j \in 1..Len(attempts) :
        /\ attempts[i].res.warnings # {}
        /\ attempts[i].path.fam = "firefox"
        /\ attempts[j].path.fam # "firefox"
    /\ \E i \in 1..Len(attempts) : attempts[i].res.tok = None
    /\ NoFile("notdb") \in Range(fs.firefox)
    /\ \E fam \in {"chrome", "edge"} :
        \E c \in Range(AllCandidates[fam]) : c.file = NoFile("unopenable")

\* the cookie table of f is the one the extraction of the family reads
SchemaFits(fam, f) ==
    /\ f.st = "db"
    /\ TableOf(f.schema) = (IF fam = "firefox" THEN "moz_cookies" ELSE "cookies")

IsTargetDomain(h) == h = TIKTOK_COM \/ EndsWith(h, DOT_TIKTOK_COM)

\* the rows named msToken of the target domain
TargetTokenRows(f) ==
    {i \in 1..Len(f.rows) : f.rows[i].name = "msToken" /\ IsTargetDomain(f.rows[i].host)}

\* cs without its leading and trailing blanks
Trimmed(cs) ==
    LET solid == {k \in 1..Len(cs) : cs[k] \notin {" ", "\\r", "\\n"}}
    IN  IF solid = {} THEN <<>>
        ELSE SubSeq(cs, CHOOSE k \in solid : \A m \in solid : k <= m,
                        CHOOSE k \in solid : \A m \in solid : k >= m)

\* the call returned the value of row i, trimmed (None counts as the empty value)
ReturnedRow(res, f, i) ==
    /\ res.raised = "none"
    /\ res.tok.chars = Trimmed(f.rows[i].value.chars)

FirstTokenRow(f) ==
    LET hits == {i \in 1..Len(f.rows) :
                    f.rows[i].name = "msToken" /\ Contains(f.rows[i].host, TIKTOK)}
    IN  IF hits = {} THEN 0 ELSE CHOOSE i \in hits : \A j \in hits : i <= j

\* a value the extraction of the family hands out: not empty once trimmed and,
\* for Chrome and Edge, text or decodable bytes that do not begin with "v1"
PlainValue(fam, v) ==
    /\ Trimmed(v.chars) # <<>>
    /\ fam # "firefox" =>
        /\ \A k \in 1..Len(v.chars) : v.chars[k] # BadByte
        /\ ~(Len(v.chars) >= 2 /\ v.chars[1] = "v" /\ v.chars[2] = "1")

OverallOrder ==
    LET of(fam) == LET files == GetCookieFiles(fam)
                   IN  [i \in 1..Len(files) |-> [fam |-> fam, cand |-> files[i]]]
    IN  of("firefox") \o of("chrome") \o of("edge")

\* the first position of order whose candidate holds an extractable token, or 0
FirstExtractable(order) ==
    LET hits == {i \in 1..Len(order) : Extractable(order[i].fam, order[i].cand)}
    IN  IF hits = {} THEN 0 ELSE CHOOSE i \in hits : \A j \in hits : i <= j

\* C4: without preference the candidates are tried in the order Firefox,
\* Chrome, Edge and in ranked order inside a family; every failure moves on to
\* the next candidate; the token returned is that of the first candidate whose
\* extraction succeeds, and None is returned exactly when there is none.
C4_FirstSuccessInOrder ==
    (preferred = "none" /\ lpc # "idle") =>
        LET order == OverallOrder
            first == FirstExtractable(order)
        IN  /\ Len(attempts) <= Len(order)
            /\ \A i \in 1..Len(attempts) :
                /\ attempts[i].path = order[i].cand.path
                /\ i < Len(attempts) => ~Truthy(attempts[i].res.tok)
            /\ lpc = "done" =>
                IF first = 0
                THEN ms_token = None /\ Len(attempts) = Len(order)
                ELSE /\ Len(attempts) = first
                     /\ ms_token = ExtractFrom(order[first].fam, order[first].cand.file).tok
                     /\ ms_token # None

\* a run without preference that failed on a Firefox candidate and then found
\* the token in a later family
C4_Witness ==
    /\ lpc = "done"
    /\ preferred = "none"
    /\ Len(attempts) >= 2
    /\ attempts[1].path.fam = "firefox"
    /\ attempts[Len(attempts)].path.fam # "firefox"
    /\ ms_token # None

(***************************************************************************)
(* Properties of the Dispatcher and the Mock generator.                    *)
(***************************************************************************)
\* C5 (as claimed): in user, trending and hashtag mode of the Dispatcher, for every
\* --limit the command line accepts (stated here for the limits a result set can
\* meet, n >= 0) and every remote stream, the number of videos accumulated is at
\* most the limit given.  The code takes --limit 0 for no limit.
C5_AtMostLimit ==
    (prog = "dispatcher" /\ args.mode \in {"user", "trending", "hashtag"}
        /\ args.limit # Absent /\ args.limit[1] >= 0)
        => Len(videos) <= args.limit[1]

\* C6 (as claimed): in both programs a run in user, hashtag or video mode without
\* --target prints an error and ends with exit status 1 before a session is opened,
\* anything is generated or a file is written (the target being the one thing the
\* command line lacks).  argparse ends the Dispatcher with exit status 2.
C6_MissingTargetExitsOne ==
    (args.mode \in {"user", "hashtag", "video"} /\ args.target = Absent
        /\ (prog = "dispatcher" => args.session # Absent) /\ spc # "start")
        => /\ exit_status = 1
           /\ Range(printed) \cap {"target_required", "usage_error"} # {}
           /\ sessions = 0
           /\ entity = <<>> /\ videos = <<>> /\ comments = <<>> /\ followers = <<>>
           /\ out_file = NoOutput

\* the description and comment-text cells of a row of a CSV file
TextCells(row) ==
    CASE row.kind = "user_video" -> {row.cells[2]}
      [] row.kind \in {"feed_video", "comment"} -> {row.cells[3]}
      [] row.kind = "field" /\ row.cells[2] = "description" -> {row.cells[3]}
      [] OTHER -> {}

\* C7 (as claimed): in the CSV output of every mode, real and mock, every
\* description or comment-text cell has at most 100 characters, the description row
\* of the video in video mode included.  That row is written untruncated.
C7_CsvTextAtMost100 ==
    out_file.format = "csv"
        => \A i \in 1..Len(out_file.rows) :
               \A cell \in TextCells(out_file.rows[i]) : Len(cell) <= TRUNCATE

\* the kind of item a run collects, and the items
CollectedKind ==
    CASE args.mode = "video" -> IF args.comments THEN "comment" ELSE "none"
      [] args.mode = "user" -> IF args.followers THEN "follower" ELSE "user_video"
      [] OTHER -> "feed_video"

Collected ==
    CASE CollectedKind = "comment" -> comments
      [] CollectedKind = "follower" -> followers
      [] OTHER -> videos

ColumnsOfKind(kind) ==
    CASE kind = "user_video" -> USER_VIDEO_COLUMNS
      [] kind = "feed_video" -> FEED_VIDEO_COLUMNS
      [] kind = "comment" -> COMMENT_COLUMNS
      [] kind = "follower" -> FOLLOWER_COLUMNS

\* C8 (as claimed): in the CSV output of every mode the item header written is the
\* column list of the kind of item the run collected, it is followed by exactly one
\* data row per collected item, in collection order, and no header of a kind that was
\* not collected is written.  A mock user run with --followers that collects no
\* follower writes the video header.
C8_CsvHeaderOfCollectedKind ==
    out_file.format = "csv"
        => LET rows == out_file.rows
           IN  \A i \in 1..Len(rows) :
                   (rows[i].kind = "header" /\ rows[i].cells # FIELD_COLUMNS)
                       => /\ CollectedKind # "none"
                          /\ rows[i].cells = ColumnsOfKind(CollectedKind)
                          /\ Len(rows) - i = Len(Collected)
                          /\ \A j \in 1..Len(Collected) :
                                 /\ rows[i + j].kind = CollectedKind
                                 /\ rows[i + j].cells[1] = Get(Collected[j], "id")

\* C9 (as claimed): a mock user run without --followers, with JSON output and a
\* limit n (a number of videos: n >= 0), writes total_videos = n and a videos list
\* of n entries, each with id, desc and stats.diggCount.  With --limit 0 the code
\* generates min(videoCount, 50) videos.
C9_MockUserLimit ==
    (prog = "mock" /\ spc = "done" /\ args.mode = "user" /\ ~args.followers
        /\ args.format = "json" /\ args.limit # Absent /\ args.limit[1] >= 0)
        => LET d == out_file.data
           IN  /\ {"total_videos", "videos"} \subseteq DOMAIN d
               /\ d.total_videos = args.limit[1]
               /\ Len(d.videos) = args.limit[1]
               /\ \A i \in 1..Len(d.videos) :
                      /\ {"id", "desc", "stats"} \subseteq DOMAIN d.videos[i]
                      /\ "diggCount" \in DOMAIN d.videos[i].stats

\* a finished mock run in video mode that wrote a JSON document
MockVideoJsonDone ==
    prog = "mock" /\ spc = "done" /\ args.mode = "video" /\ args.format = "json"

\* C10 (as claimed): a mock video run with --comments and --comment-limit k writes
\* total_comments = k and a comments list of k entries; without --comments it writes
\* neither key.  For a negative k the list is empty.
C10_MockCommentsExactlyK ==
    MockVideoJsonDone
        => LET d == out_file.data
           IN  IF args.comments
               THEN /\ {"total_comments", "comments"} \subseteq DOMAIN d
                    /\ d.total_comments = args.comment_limit
                    /\ Len(d.comments) = args.comment_limit
               ELSE {"total_comments", "comments"} \cap DOMAIN d = {}

\* C10 (amended): a mock video run with --comments and --comment-limit k writes a
\* JSON document whose total_comments is k and whose comments list has k entries
\* when k >= 0, and 0 and no entry when k < 0; without --comments the document has
\* neither key.
C10_MockCommentsUpToK ==
    MockVideoJsonDone
        => LET d == out_file.data
               n == IF args.comment_limit >= 0 THEN args.comment_limit ELSE 0
           IN  IF args.comments
               THEN /\ {"total_comments", "comments"} \subseteq DOMAIN d
                    /\ d.total_comments = n
                    /\ Len(d.comments) = n
                    /\ Len(comments) = n
               ELSE {"total_comments", "comments"} \cap DOMAIN d = {}

\* a mock video run that wrote as many comments as asked for, more than one
C10_Witness ==
    /\ MockVideoJsonDone
    /\ args.comments
    /\ args.comment_limit = MaxLimit
    /\ out_file.data.total_comments = MaxLimit
    /\ Len(out_file.data.comments) > 1

(***************************************************************************)
(* The exit status of the Locator CLI.                                     *)
(***************************************************************************)
\* C11 as stated: the Locator CLI ends with status 0 when a token was found and
\* with status 1 when no token was found, when an exception reached the top
\* level, or when an interrupt was delivered at any point of the run; no other
\* exit status occurs.
C11_ExitZeroOrOne ==
    lpc = "exited" =>
        /\ lexit \in {0, 1}
        /\ levents \cap {"error", "interrupt", "handler_interrupt"} # {} => lexit = 1
        /\ "not_found" \in levents => lexit = 1
        /\ levents \cap {"printed", "saved", "save_failed"} # {} => lexit = 0

\* C11: when standard output is flushed at the end of the interpreter, the CLI
\* ends with status 0 when a token was found and with status 1 when no token was
\* found, when an exception reached the top level, or when an interrupt was
\* delivered inside the try block; an interrupt delivered while a top-level
\* handler runs ends the process by SIGINT, and a failed flush ends it with 120.
C11_ExitStatusOfTryBlock ==
    lpc = "exited" =>
        /\ lexit \in {0, 1, 120, 128 + 2}
        /\ lexit = 128 + 2 <=> "handler_interrupt" \in levents
        /\ lexit = 120 <=> "flush_failed" \in levents
        /\ levents \cap {"handler_interrupt", "flush_failed"} = {} =>
            /\ levents \cap {"error", "interrupt"} # {} => lexit = 1
            /\ "not_found" \in levents => lexit = 1
            /\ levents \cap {"printed", "saved", "save_failed"} # {} => lexit = 0

\* a run interrupted between two candidates, whose handler ended it with status 1
C11_Witness ==
    /\ lpc = "exited"
    /\ levents = {"interrupt"}
    /\ attempts # <<>>
    /\ ms_token = None
    /\ lexit = 1

(***************************************************************************)
(* Session establishment of the Dispatcher.                                *)
(***************************************************************************)
\* the one call create_sessions(ms_tokens=[t], num_sessions=1) was made, t being
\* the session argument itself or the trimmed content of the file it names
OneSessionWithSuppliedToken ==
    /\ Len(handed) = 1
    /\ handed[1].num_sessions = 1
    /\ handed[1].ms_tokens =
           << IF session_file.st = "file" THEN Trimmed(session_file.chars)
              ELSE args.session[1] >>

\* a failed attempt fetched nothing, was reported and ended the process with a
\* status other than 0
FailedOpenEndsRun ==
    (handed # <<>> /\ ~handed[1].ok) =>
        /\ entity = <<>> /\ videos = <<>> /\ comments = <<>>
        /\ spc = "failed"
        /\ printed[Len(printed)] = "error"
        /\ exit_status \notin {-1, 0}

C13_ErrorPersistsNothing ==
    [][(prog = "dispatcher" /\ spc \in {"start", "opening", "info", "fetching"}) =>
          /\ out_file' = out_file
          /\ spc' = "failed" => exit_status' = 1]_vars

\* a run over an output file of an earlier run that failed after two videos
C13_Witness ==
    /\ prog = "dispatcher"
    /\ spc = "failed"
    /\ printed[Len(printed)] = "error"
    /\ Len(videos) = 2
    /\ out_file = [format |-> "old"]
    /\ exit_status = 1

(***************************************************************************)
(* The default caps.                                                       *)
(***************************************************************************)
\* C14: when no limit is given the Dispatcher collects at most 1000 videos in
\* user mode, at most 100 videos in trending and hashtag mode and at most 30
\* comments in video mode with comments, whatever the remote stream yields.
C14_AtMostDefaultCap ==
    prog = "dispatcher" =>
        /\ (args.mode = "user" /\ args.limit = Absent) =>
               Len(videos) <= USER_COUNT_DEFAULT
        /\ (args.mode \in {"trending", "hashtag"} /\ args.limit = Absent) =>
               Len(videos) <= FEED_COUNT_DEFAULT
        /\ (args.mode = "video" /\ args.comments
                /\ args.comment_limit = COMMENT_LIMIT_DEFAULT) =>
               Len(comments) <= COMMENT_LIMIT_DEFAULT

(***************************************************************************)
(* The JSON documents.                                                     *)
(***************************************************************************)
\* C15: every JSON document the Dispatcher or the Mock generator writes, in
\* every mode and with every flag combination, holds an extraction timestamp
\* and a total item count, and the count is the length of the item list of
\* the same document.
C15_JsonHasTimestampAndTotal ==
    (spc = "done" /\ out_file.format = "json") =>
        LET d == out_file.data
            counted(list, total) ==
                /\ {list, total} \subseteq DOMAIN d
                /\ d[total] = Len(d[list])
        IN  /\ "extracted_at" \in DOMAIN d
            /\ \/ counted("videos", "total_videos")
               \/ counted("comments", "total_comments")
               \/ counted("followers", "total_followers")

(***************************************************************************)
(* The quiet flag of the Mock generator.                                   *)
(***************************************************************************)
\* C16: a mock run with the quiet flag carries no marker of fabricated data in
\* any mode: no mock banner or mock note is printed, the output document has
\* no mock_mode or note field, and the file name made up has no _mock part.
C16_QuietCarriesNoMark ==
    (prog = "mock" /\ args.quiet /\ spc = "done") =>
        /\ Range(printed) \cap {"mock_banner", "mock_mode", "mock_note"} = {}
        /\ out_file.format = "json" =>
               DOMAIN out_file.data \cap {"mock_mode", "note"} = {}
        /\ <<"mock">> \notin Range(out_file.name)

(***************************************************************************)
(* Followers and videos of a mock user run.                                *)
(***************************************************************************)
\* C17: in a mock user run the follower listing and the video listing exclude
\* each other: with the followers flag the document has followers and
\* total_followers and neither videos nor total_videos, and no video is
\* generated; without it the document has videos and total_videos and neither
\* followers nor total_followers.
C17_FollowersExcludeVideos ==
    (prog = "mock" /\ args.mode = "user" /\ spc = "done") =>
        LET keys == DOMAIN out_file.data
            of_followers == {"followers", "total_followers"}
            of_videos == {"videos", "total_videos"}
        IN  IF args.followers
            THEN /\ videos = <<>>
                 /\ out_file.format = "json" =>
                        of_followers \subseteq keys /\ of_videos \cap keys = {}
            ELSE /\ followers = <<>>
                 /\ out_file.format = "json" =>
                        of_videos \subseteq keys /\ of_followers \cap keys = {}

\* a mock user run with the followers flag and a limit of videos given too,
\* that wrote its followers as JSON
C17_Witness ==
    /\ prog = "mock" /\ args.mode = "user" /\ spc = "done"
    /\ args.followers
    /\ IntTruthy(args.limit)
    /\ out_file.format = "json"
    /\ out_file.data.followers # <<>>

(***************************************************************************)
(* The token file between the Locator and the Dispatcher.                  *)
(***************************************************************************)
\* C18: a token extract_ms_token returns, once save_ms_token has written it,
\* reaches the remote session unmodified when the Dispatcher is given the path
\* of the token file as its session argument.
C18_TokenFileRoundTrip ==
    (xpc = "done" /\ Truthy(xres.tok) /\ xsaved.ok) => xhanded = <<xres.tok.chars>>

(***************************************************************************)
(* The life cycle of a Dispatcher invocation.                              *)
(***************************************************************************)
\* C19: a Dispatcher invocation passes from the start through the session
\* being opened and the fetching to done or failed and never goes back: an
\* item (the entity's info, a video, a comment) is stored only while the info
\* or the stream is awaited and after the one session was established, the
\* stream is requested once and the lists only grow by what it yields, the
\* output file changes only once "Prepare output data" is reached, after which
\* no item is stored, and nothing happens after done or failed.
C19_LifeCycle ==
    [][prog = "dispatcher" =>
          LET rank(p) == CASE p = "start" -> 0
                           [] p = "opening" -> 1
                           [] p = "info" -> 2
                           [] p = "fetching" -> 3
                           [] p = "serializing" -> 4
                           [] OTHER -> 5
              prefix(a, b) == Len(a) <= Len(b) /\ SubSeq(b, 1, Len(a)) = a
          IN  /\ spc \notin {"done", "failed"}
              /\ rank(spc) <= rank(spc')
              /\ spc' = "done" => spc = "serializing"
              /\ <<entity, videos, comments>>' # <<entity, videos, comments>> =>
                    /\ spc \in {"info", "fetching"}
                    /\ handed # <<>> /\ handed[Len(handed)].ok
              /\ prefix(videos, videos') /\ prefix(comments, comments')
              /\ count # Absent => count' = count
              /\ out_file' # out_file => spc = "serializing"]_vars

\* a run that stored the info and two comments of a video and wrote its file
C19_Witness ==
    /\ prog = "dispatcher" /\ spc = "done"
    /\ args.mode = "video"
    /\ Len(handed) = 1
    /\ Len(comments) = 2
    /\ out_file \notin {NoOutput, [format |-> "old"]}

(***************************************************************************)
(* The probe applied to every cookie file.                                 *)
(***************************************************************************)
\* C20: no exception leaves has_tiktok_cookies; it returns False for a file
\* that cannot be opened or whose queries all fail, the queries tried after a
\* schema mismatch included; and it returns True only for a file that holds a
\* row of the target domain.
C20_ProbeSilentAndSound ==
    xpc \in {"probed", "done"} =>
        /\ xprobe.raised = "none"
        /\ ~SchemaFits(xfam, xfile) => ~xprobe.found
        /\ xprobe.found => \E i \in 1..Len(xfile.rows) : IsTargetDomain(xfile.rows[i].host)

(***************************************************************************)
(* Warnings and values of the per-file extraction.                         *)
(***************************************************************************)
\* C21: the extraction of a file that cannot be opened, or on which a query
\* fails because the file is no database, emits a warning about the file, in
\* every family.
C21_FileErrorWarns ==
    (xpc = "done" /\ xfile.st \in {"unopenable", "notdb"}) => xres.warnings # {}

\* C22: in the Chrome and Edge extraction, when a query that is run returns a
\* value that is undecodable bytes or that begins with "v1", the call returns
\* None and emits the message about an encrypted value.
C22_EncryptedSkippedWithMessage ==
    LET qs == QueryList("cookies", ChromeDomains)
        encrypted(v) == \/ v.type = "bytes" /\ ~Decodable(v.chars)
                        \/ StartsWith(v.chars, V1)
        met == {k \in 1..Len(qs) :
                   /\ ChromeScan(xfile, SubSeq(qs, 1, k - 1), {}).tok = None
                   /\ Execute(xfile, qs[k]).exc = "none"
                   /\ Execute(xfile, qs[k]).rows # <<>>
                   /\ encrypted(Execute(xfile, qs[k]).rows[1].value)}
    IN  (xpc = "done" /\ xfam = "chrome" /\ Connect(xfile) = "none" /\ met # {}) =>
            /\ xres.tok = None
            /\ "encrypted" \in xres.warnings

\* C23: a database of the family's schema that holds a row named msToken or
\* ms_token of the target domain with a plain value yields a non-empty token,
\* whatever the other rows hold.
C23_ReturnsNonEmptyWhenPresent ==
    (/\ xpc = "done"
     /\ SchemaFits(xfam, xfile)
     /\ \E i \in 1..Len(xfile.rows) :
            /\ xfile.rows[i].name \in TokenNames
            /\ IsTargetDomain(xfile.rows[i].host)
            /\ PlainValue(xfam, xfile.rows[i].value))
        => (Truthy(xres.tok) /\ xres.tok.chars # <<>>)

(***************************************************************************)
(* Database handles.                                                       *)
(***************************************************************************)
\* C24: a probe call that opened a database handle has closed it when it
\* returns, whether it found cookies, found none or met an error.
C24_ProbeClosesHandle ==
    (xpc \in {"probed", "done"} /\ Connect(xfile) = "none") => xprobe.closed

(***************************************************************************)
(* Termination of the Dispatcher.                                          *)
(***************************************************************************)
\* C25: when every remote call returns, a Dispatcher run over a finite stream,
\* or with a positive limit (--limit, and --comment-limit in video mode) over
\* a stream that may never end, leaves the fetch loop and comes to an end.
C25_EventuallyEnds ==
    LET limit == IF args.mode = "video" THEN <<args.comment_limit>> ELSE args.limit
        positive == limit # Absent /\ limit[1] > 0
    IN  (prog = "dispatcher" /\ (stream = "finite" \/ positive))
            ~> (spc \in {"done", "failed", "rejected", "crashed"})

\* C26: a database of the family's schema that holds a plain value of the
\* target domain under the name msToken and another under the name ms_token
\* yields the value of a msToken row.
C26_MsTokenTakesPrecedence ==
    LET plain(n) == {i \in 1..Len(xfile.rows) :
                        /\ xfile.rows[i].name = n
                        /\ IsTargetDomain(xfile.rows[i].host)
                        /\ PlainValue(xfam, xfile.rows[i].value)}
    IN  (/\ xpc = "done"
         /\ SchemaFits(xfam, xfile)
         /\ plain("msToken") # {}
         /\ plain("ms_token") # {})
            => \E i \in plain("msToken") : ReturnedRow(xres, xfile, i)

C28_EachPathOnce ==
    /\ \A fam \in {"chrome", "edge"} :
          \A i, j \in 1..Len(ranked[fam]) :
              i # j => ranked[fam][i].path # ranked[fam][j].path
    /\ \A i, j \in 1..Len(attempts) : i # j => attempts[i].path # attempts[j].path

(***************************************************************************)
(* Delivery of the token by the Locator.                                   *)
(***************************************************************************)
\* C29: the Locator exits with status 0 only after it has printed the token
\* (--stdout) or written it whole to the output file.
C29_ZeroMeansDelivered ==
    (lpc = "exited" /\ lexit = 0) =>
        \/ "printed" \in levents
        \/ "saved" \in levents /\ token_file = <<Strip(ms_token.chars)>>

(***************************************************************************)
(* The output file of the Dispatcher at process exit.                      *)
(***************************************************************************)
\* C30: when a Dispatcher run has exited, its output file is absent or holds
\* what it held before the run, or it holds the whole serialized result set
\* of a run that exited with status 0; it is never a partly written file.
C30_FileUntouchedOrComplete ==
    (prog = "dispatcher" /\ exit_status # -1) =>
        \/ out_file \in {NoOutput, [format |-> "old"]}
        \/ /\ exit_status = 0
           /\ out_file = DispatcherOutput(args, entity, videos, comments)

=============================================================================
